---- MODULE Spec2Model ----
(***************************************************************************)
(* Closure-code recommender of the cmdb repository.                        *)
(*                                                                         *)
(*   gestion/ml/incident_classifier.py   normalizar_texto,                 *)
(*                                       build_and_save_similarity_model   *)
(*   gestion/views/recommendations.py    load_model, SIMILARITY_MODEL_DATA,*)
(*                                       reentrenar_modelo_view,           *)
(*                                       recommend_closure_code_view       *)
(*   gestion/management/commands/train_incident_classifier.py              *)
(*                                       Command.handle                    *)
(*   gestion/views/cod_cierre.py         registrar / editar / eliminar     *)
(*                                                                         *)
(* Text is a sequence of tokens: the blank SP, words in lower or upper     *)
(* case, an English stop word and digits.  TF-IDF weights are kept in      *)
(* tenths (idf rounded to one decimal), rows are unnormalised and the      *)
(* cosine is kept as the exact fraction  dot^2 / (|q|^2 |d|^2).            *)
(***************************************************************************)
EXTENDS Integers, Sequences, FiniteSets, TLC

\* ------------------------------------------------------------------ bounds
MaxCodes == 3        \* closure codes ever registered (auto-increment ids)
MaxCalls == 1        \* calls each request thread serves
MaxDen == 30         \* largest denominator of a similarity drawn in SpecScore
MaxExtra == 3        \* incidents of one code beyond HISTORY_LIMIT in SpecHist

\* ------------------------------------------------------- program constants
SIMILARITY_THRESHOLD_PCT == 20
TOP_K == 3
HISTORY_LIMIT == 50
MAX_FEATURES == 5000

\* -------------------------------------------------------------- Python-isms
\* Values that may be None, a number or a string are tagged records
None == [t |-> "null"]
Num(n) == [t |-> "num", v |-> n]
Str(s) == [t |-> "str", v |-> s]
SP == " "

Min(a, b) == IF a <= b THEN a ELSE b

RECURSIVE SumSeq(_)
SumSeq(s) == IF s = <<>> THEN 0 ELSE Head(s) + SumSeq(Tail(s))

RECURSIVE Concat(_)
\* "".join of a sequence of texts
Concat(ss) == IF ss = <<>> THEN <<>> ELSE Head(ss) \o Concat(Tail(ss))

RECURSIVE JoinSp(_)
\* " ".join(list)
JoinSp(ss) ==
    IF ss = <<>> THEN <<>>
    ELSE IF Len(ss) = 1 THEN Head(ss)
    ELSE Head(ss) \o <<SP>> \o JoinSp(Tail(ss))

\* ------------------------------------------------------------ text: str ops
LowerTok(t) ==
    CASE t = "RED" -> "red"
      [] t = "VPN" -> "vpn"
      [] t = "THE" -> "the"
      [] OTHER -> t

\* str.lower()
lower(texto) == [i \in 1..Len(texto) |-> LowerTok(texto[i])]

RECURSIVE lstrip(_)
lstrip(texto) ==
    IF texto # <<>> /\ Head(texto) = SP THEN lstrip(Tail(texto)) ELSE texto

RECURSIVE rstrip(_)
rstrip(texto) ==
    IF texto # <<>> /\ texto[Len(texto)] = SP
    THEN rstrip(SubSeq(texto, 1, Len(texto) - 1))
    ELSE texto

\* str.strip()
strip(texto) == rstrip(lstrip(texto))

\* incident_classifier.py:10-14, for a str argument (both callers pass one)
normalizar_texto(texto) ==
    IF texto = <<>> THEN <<>> ELSE strip(lower(texto))

\* `x or ''` of the f-string at incident_classifier.py:52
OrEmpty(x) == IF x = None THEN <<>> ELSE x.v

\* ------------------------------------------------ TfidfVectorizer (sklearn)
\* Words the analyzer can keep (two or more word characters), alphabetically.
WordOrder == <<"dns", "red", "vpn">>
Words == {WordOrder[i] : i \in 1..Len(WordOrder)}
\* stop_words='english'
StopWords == {"the"}

\* Every unigram and bigram over Words, in the alphabetical order sklearn
\* gives the columns ("dns" < "dns dns" < "dns red" < ... < "vpn vpn").
AllFeatures ==
    Concat([i \in 1..Len(WordOrder) |->
              <<  <<WordOrder[i]>>  >> \o
              [j \in 1..Len(WordOrder) |-> <<WordOrder[i], WordOrder[j]>>]])

\* build_analyzer(): lowercase, tokens of 2+ word characters, stop words out
analyze(texto) ==
    SelectSeq(lower(texto), LAMBDA t : t \in Words /\ t \notin StopWords)

\* term frequency of an n-gram (n = 1, 2) in an analysed document
tf(f, toks) ==
    Cardinality({i \in 1..(Len(toks) - Len(f) + 1) :
                    SubSeq(toks, i, i + Len(f) - 1) = f})

\* smooth idf  ln((1+n)/(1+df)) + 1,  in tenths, for n documents (row n) and
\* document frequency df (column df)
IdfDeci ==
    << <<10>>,
       <<14, 10>>,
       <<17, 13, 10>>,
       <<19, 15, 12, 10>>,
       <<21, 17, 14, 12, 10>>,
       <<23, 18, 16, 13, 12, 10>> >>

\* vocabulary_ of fit(): the features of the corpus, sorted, capped at
\* max_features (the cap keeps the most frequent; it never binds here)
Vocabulary(corpus) ==
    LET seen == SelectSeq(AllFeatures,
                   LAMBDA f : \E d \in 1..Len(corpus) : tf(f, analyze(corpus[d])) > 0)
    IN  IF Len(seen) <= MAX_FEATURES THEN seen ELSE SubSeq(seen, 1, MAX_FEATURES)

\* TfidfVectorizer(...).fit(corpus): None stands for the ValueError
\* "empty vocabulary" sklearn raises
fit(corpus) ==
    LET vocab == Vocabulary(corpus)
        n == Len(corpus)
        df(f) == Cardinality({d \in 1..n : tf(f, analyze(corpus[d])) > 0})
    IN  IF vocab = <<>> THEN None
        ELSE [vocabulary |-> vocab,
              idf |-> [i \in 1..Len(vocab) |-> IdfDeci[n][df(vocab[i])]]]

\* vectorizer.transform([texto])[0]: out-of-vocabulary terms are dropped
transform(vectorizer, texto) ==
    LET toks == analyze(texto)
    IN  [i \in 1..Len(vectorizer.vocabulary) |->
            tf(vectorizer.vocabulary[i], toks) * vectorizer.idf[i]]

Dot(u, v) == SumSeq([i \in 1..Len(u) |-> u[i] * v[i]])

RECURSIVE Gcd(_, _)
Gcd(a, b) == IF b = 0 THEN a ELSE Gcd(b, a % b)

\* A similarity that takes a vector of norm zero for a perfect match
cosine_similarity_ZeroAsOne(q, row) ==
    LET d == Dot(q, row)
        nn == Dot(q, q) * Dot(row, row)
        g == Gcd(d * d, nn)
    IN  IF nn = 0 THEN [num |-> 1, den |-> 1]
        ELSE IF d = 0 THEN [num |-> 0, den |-> 1]
        ELSE [num |-> (d * d) \div g, den |-> nn \div g]

\* cosine_similarity(q, row) as the fraction num/den, in lowest terms, of its
\* square; a zero vector gives 0.  The caller checks that the dimensions agree.
cosine_similarity(q, row) ==
    LET d == Dot(q, row)
        nn == Dot(q, q) * Dot(row, row)
        g == Gcd(d * d, nn)
    IN  IF nn = 0 \/ d = 0 THEN [num |-> 0, den |-> 1]
        ELSE [num |-> (d * d) \div g, den |-> nn \div g]

RECURSIVE FracLess(_, _, _, _)
\* a/b < c/d for a, c >= 0 and b, d > 0, by continued fractions (no
\* cross-multiplication, which would overflow)
FracLess(a, b, c, d) ==
    LET qa == a \div b
        qc == c \div d
        ra == a % b
        rc == c % d
    IN  IF qa # qc THEN qa < qc
        ELSE IF rc = 0 THEN FALSE
        ELSE IF ra = 0 THEN TRUE
        ELSE FracLess(d, rc, b, ra)

ScoreLess(s1, s2) == FracLess(s1.num, s1.den, s2.num, s2.den)
ScoreEq(s1, s2) == ~ScoreLess(s1, s2) /\ ~ScoreLess(s2, s1)

\* A comparison that leaves the threshold itself out
AtLeastThreshold_Above(s) ==
    FracLess(SIMILARITY_THRESHOLD_PCT * SIMILARITY_THRESHOLD_PCT, 100 * 100, s.num, s.den)

\* score >= SIMILARITY_THRESHOLD, i.e. cos^2 >= (20/100)^2
AtLeastThreshold(s) ==
    ~FracLess(s.num, s.den, SIMILARITY_THRESHOLD_PCT * SIMILARITY_THRESHOLD_PCT, 100 * 100)

\* ---------------------------------------------------------------- records
\* Application ids of the Aplicacion table
Aplicaciones == {7, 9}

\* A CodigoCierre row; aplicacion is None or Num(id of the Aplicacion)
Codigo(id, desc, causa, app) ==
    [id |-> id, desc_cod_cierre |-> desc, causa_cierre |-> causa, aplicacion |-> app]

\* An Incidencia row; each of the four text fields is None or Str(text)
Incidencia(cc, fecha, d, c, s, o) ==
    [codigo_cierre |-> cc, fecha_apertura |-> fecha, descripcion_incidencia |-> d,
     causa |-> c, solucion_final |-> s, observaciones |-> o]

RECURSIVE OrderByFechaDesc(_)
\* .order_by('-fecha_apertura') of a set of rows with distinct dates
OrderByFechaDesc(S) ==
    IF S = {} THEN <<>>
    ELSE LET m == CHOOSE r \in S : \A o \in S : o.fecha_apertura <= r.fecha_apertura
         IN  <<m>> \o OrderByFechaDesc(S \ {m})

\* A history ordered by the opening date without the minus sign: the oldest
\* incidents come first
UltimasIncidencias_Oldest(c, incs) ==
    LET s == OrderByFechaDesc({r \in incs : r.codigo_cierre = c.id})
        asc == [k \in 1..Len(s) |-> s[Len(s) + 1 - k]]
    IN  SubSeq(asc, 1, Min(Len(asc), HISTORY_LIMIT))

\* incident_classifier.py:49  filter(codigo_cierre=c).order_by(...)[:50]
UltimasIncidencias(c, incs) ==
    LET s == OrderByFechaDesc({r \in incs : r.codigo_cierre = c.id})
    IN  SubSeq(s, 1, Min(Len(s), HISTORY_LIMIT))

\* incident_classifier.py:45-57: the training document of one code
texto_completo(c, incs) ==
    LET texto_base == c.desc_cod_cierre \o <<SP>> \o c.causa_cierre
        ult == UltimasIncidencias(c, incs)
        texto_historial ==
            JoinSp([k \in 1..Len(ult) |->
                OrEmpty(ult[k].descripcion_incidencia) \o <<SP>> \o
                OrEmpty(ult[k].causa) \o <<SP>> \o
                OrEmpty(ult[k].solucion_final) \o <<SP>> \o
                OrEmpty(ult[k].observaciones)])
    IN  normalizar_texto(texto_base \o <<SP>> \o texto_historial)

\* incident_classifier.py:61
AppList(c) == IF c.aplicacion = None THEN <<>> ELSE <<c.aplicacion.v>>

\* A build that leaves out the codes that have no incident history
BuildModelData_HistoryOnly(codigos, incs) ==
    LET kept == SelectSeq(codigos, LAMBDA c : UltimasIncidencias(c, incs) # <<>>)
        corpus == [k \in 1..Len(kept) |-> texto_completo(kept[k], incs)]
        vectorizer == fit(corpus)
    IN  IF vectorizer = None THEN None
        ELSE [vectorizer |-> vectorizer,
              tfidf_matrix |-> [k \in 1..Len(corpus) |-> transform(vectorizer, corpus[k])],
              code_ids |-> [k \in 1..Len(kept) |-> kept[k].id],
              code_to_app_map |->
                  [i \in {kept[k].id : k \in 1..Len(kept)} |->
                      AppList(CHOOSE c \in {kept[k] : k \in 1..Len(kept)} : c.id = i)]]

\* incident_classifier.py:36-76: model_data for the rows the loop iterated;
\* None when fit_transform raises (no row, or no term left in any document)
BuildModelData(codigos, incs) ==
    LET corpus == [k \in 1..Len(codigos) |-> texto_completo(codigos[k], incs)]
        code_ids == [k \in 1..Len(codigos) |-> codigos[k].id]
        vectorizer == fit(corpus)
    IN  IF vectorizer = None THEN None
        ELSE [vectorizer |-> vectorizer,
              tfidf_matrix |-> [k \in 1..Len(corpus) |-> transform(vectorizer, corpus[k])],
              code_ids |-> code_ids,
              code_to_app_map |->
                  [i \in {codigos[k].id : k \in 1..Len(codigos)} |->
                      AppList(CHOOSE c \in {codigos[k] : k \in 1..Len(codigos)} : c.id = i)]]

\* ------------------------------------------------------- the artifact file
FileAbsent == [st |-> "absent"]
FilePartial == [st |-> "partial"]

\* joblib.dump: the dict is pickled as its items in insertion order, the inner
\* dict code_to_app_map as its (key, value) pairs in insertion order
Pickle(model_data) ==
    << <<"vectorizer", model_data.vectorizer>>,
       <<"tfidf_matrix", model_data.tfidf_matrix>>,
       <<"code_ids", model_data.code_ids>>,
       <<"code_to_app_map",
         [k \in 1..Len(model_data.code_ids) |->
            <<model_data.code_ids[k], model_data.code_to_app_map[model_data.code_ids[k]]>>]>> >>

Item(items, key) == (CHOOSE k \in 1..Len(items) : items[k][1] = key)

\* A load that reads the three top-level components and leaves the inner
\* dict empty
Unpickle_MapLost(items) ==
    LET val(key) == items[Item(items, key)][2]
    IN  [vectorizer |-> val("vectorizer"),
         tfidf_matrix |-> val("tfidf_matrix"),
         code_ids |-> val("code_ids"),
         code_to_app_map |-> [i \in {} |-> <<>>]]

\* joblib.load of a complete file: a dict with the keys the file holds, the
\* inner dict rebuilt from its pairs
Unpickle(items) ==
    LET val(key) == items[Item(items, key)][2]
        dict(pairs) ==
            [i \in {pairs[k][1] : k \in 1..Len(pairs)} |->
                pairs[CHOOSE k \in 1..Len(pairs) : pairs[k][1] = i][2]]
    IN  [key \in {items[k][1] : k \in 1..Len(items)} |->
            IF key = "code_to_app_map" THEN dict(val(key)) ELSE val(key)]

FileOf(model_data) == [st |-> "complete", data |-> Pickle(model_data)]

\* A loader that gives no artifact only for a file that is not there, and
\* hands back what it found of any other
load_model_OnlyNotFound(file) ==
    IF file.st = "absent" THEN None
    ELSE IF file.st = "complete" THEN Unpickle(file.data) ELSE file

\* recommendations.py:19-31: FileNotFoundError and any other exception of
\* joblib.load (a truncated pickle) both give None
load_model(file) ==
    IF file.st = "complete" THEN Unpickle(file.data) ELSE None

\* A test against None in place of the truth value
Truthy_NotNone(v) == v.t # "null"

\* ------------------------------------------------- request values (Python)
\* truth value of a JSON scalar: None, 0 and "" are falsy
Truthy(v) ==
    CASE v.t = "null" -> FALSE
      [] v.t = "num" -> v.v # 0
      [] v.t = "str" -> v.v # <<>>

Digits == <<"0", "1", "2", "3", "4", "5", "6", "7", "8", "9">>
IsDigit(tok) == \E d \in 1..Len(Digits) : Digits[d] = tok
DigitVal(tok) == (CHOOSE d \in 1..Len(Digits) : Digits[d] = tok) - 1

RECURSIVE DecimalVal(_)
DecimalVal(s) ==
    IF s = <<>> THEN 0 ELSE DecimalVal(SubSeq(s, 1, Len(s) - 1)) * 10 + DigitVal(s[Len(s)])

\* int(v) of recommendations.py:119: Num(n), or None for the ValueError of a
\* string that is not a decimal numeral (blanks around it are allowed)
int(v) ==
    IF v.t = "num" THEN v
    ELSE LET s == strip(v.v)
         IN  IF s # <<>> /\ \A i \in 1..Len(s) : IsDigit(s[i])
             THEN Num(DecimalVal(s)) ELSE None

\* code_to_app_map.get(code_id, [])
MapGet(code_to_app_map, code_id) ==
    IF code_id \in DOMAIN code_to_app_map THEN code_to_app_map[code_id] ELSE <<>>

InList(x, list) == \E k \in 1..Len(list) : list[k] = x

\* ---------------------------------------------------------------- responses
JsonResponse(status, st, message, sugerencias) ==
    [status |-> status, st |-> st, message |-> message, sugerencias |-> sugerencias]

ErrorResponse(status, message) == JsonResponse(status, "error", message, <<>>)

\* --------------------------------- recommend_closure_code_view, lines 109-146
\* recommendations.py:107  SIMILARITY_MODEL_DATA.get('code_to_app_map', {})
GetMap(model_data) ==
    IF "code_to_app_map" \in DOMAIN model_data THEN model_data.code_to_app_map ELSE <<>>

\* A handler that searches every row whatever application is asked for
FilterIndices_EveryRow(all_code_ids, code_to_app_map, application_id) ==
    Str([i \in 1..Len(all_code_ids) |-> i])

\* recommendations.py:113-124: the row indices (from 1) the filter keeps, or
\* None when int(application_id) raises on a row with a non-empty app list
FilterIndices(all_code_ids, code_to_app_map, application_id) ==
    LET all == [i \in 1..Len(all_code_ids) |-> i]
        app_list(i) == MapGet(code_to_app_map, all_code_ids[i])
    IN  IF Truthy(application_id) /\ DOMAIN code_to_app_map # {}
        THEN IF \E i \in 1..Len(all_code_ids) : app_list(i) # <<>> /\ int(application_id) = None
             THEN None
             ELSE Str(SelectSeq(all, LAMBDA i :
                        app_list(i) = <<>> \/ InList(int(application_id).v, app_list(i))))
        ELSE Str(all)

\* The sequences of k distinct elements of S
RECURSIVE Arrangements(_, _)
Arrangements(S, k) ==
    IF k = 0 THEN {<<>>}
    ELSE UNION {{<<i>> \o rest : rest \in Arrangements(S \ {i}, k - 1)} : i \in S}

\* A sort from the highest score to the lowest
argsort_Descending(scores) ==
    {perm \in Arrangements(1..Len(scores), Len(scores)) :
        \A a \in 1..(Len(scores) - 1) : ~ScoreLess(scores[perm[a]], scores[perm[a + 1]])}

\* scores.argsort(): a permutation of the positions along which the scores
\* never decrease.  numpy's default sort is not stable, so equal scores may
\* come in any order.
argsort(scores) ==
    {perm \in Arrangements(1..Len(scores), Len(scores)) :
        \A a \in 1..(Len(scores) - 1) : ~ScoreLess(scores[perm[a + 1]], scores[perm[a]])}

\* A selection that keeps the ascending order of argsort
TopIndices_Ascending(scores) ==
    LET n == Len(scores)
        top_k == Min(TOP_K, n)
    IN  {SubSeq(perm, n - top_k + 1, n) : perm \in argsort(scores)}

\* recommendations.py:145-146  cosine_similarities.argsort()[-top_k:][::-1]
TopIndices(scores) ==
    LET n == Len(scores)
        top_k == Min(TOP_K, n)
    IN  {[a \in 1..top_k |-> perm[n + 1 - a]] : perm \in argsort(scores)}

\* A handler that answers an empty candidate set as it answers an empty
\* description
Candidates_NoCodesAsInvalid(vectorizer, tfidf_matrix, all_code_ids, code_to_app_map, description, application_id) ==
    LET sel == FilterIndices(all_code_ids, code_to_app_map, application_id)
        indices_to_search == sel.v
        description_vector == transform(vectorizer, normalizar_texto(description))
        Unexpected(vectorized) ==
            [err |-> ErrorResponse(500, "unexpected"), vectorized |-> vectorized]
    IN  IF sel = None THEN Unexpected(FALSE)
        ELSE IF indices_to_search = <<>>
        THEN [err |-> ErrorResponse(400, "empty_description"), vectorized |-> FALSE]
        ELSE IF \E k \in 1..Len(indices_to_search) :
                    indices_to_search[k] > Len(tfidf_matrix)
        THEN Unexpected(FALSE)
        ELSE IF Len(tfidf_matrix[1]) # Len(description_vector)
        THEN Unexpected(TRUE)
        ELSE [err |-> None, vectorized |-> TRUE,
              ids |-> [k \in 1..Len(indices_to_search) |-> all_code_ids[indices_to_search[k]]],
              scores |-> [k \in 1..Len(indices_to_search) |->
                  cosine_similarity(description_vector,
                                    tfidf_matrix[indices_to_search[k]])]]

\* Lines 109-146 on the four components the call read.  The result is
\*   [err |-> response, vectorized]           a return or a caught exception
\*   [err |-> None, vectorized, ids, scores]  the candidates and their scores
\* where vectorized tells whether vectorizer.transform (line 133) was reached.
Candidates(vectorizer, tfidf_matrix, all_code_ids, code_to_app_map, description, application_id) ==
    LET sel == FilterIndices(all_code_ids, code_to_app_map, application_id)
        indices_to_search == sel.v
        code_ids_to_search ==
            [k \in 1..Len(indices_to_search) |-> all_code_ids[indices_to_search[k]]]
        description_vector == transform(vectorizer, normalizar_texto(description))
        Unexpected(vectorized) ==
            [err |-> ErrorResponse(500, "unexpected"), vectorized |-> vectorized]
    IN  IF sel = None THEN Unexpected(FALSE)                \* ValueError of int()
        ELSE IF indices_to_search = <<>>
        THEN [err |-> ErrorResponse(404, "no_codes"), vectorized |-> FALSE]
        ELSE IF \E k \in 1..Len(indices_to_search) :
                    indices_to_search[k] > Len(tfidf_matrix)
        THEN Unexpected(FALSE)                              \* IndexError
        ELSE IF Len(tfidf_matrix[1]) # Len(description_vector)
        THEN Unexpected(TRUE)                               \* ValueError, shapes
        ELSE [err |-> None, vectorized |-> TRUE,
              ids |-> code_ids_to_search,
              scores |-> [k \in 1..Len(indices_to_search) |->
                  cosine_similarity(description_vector,
                                    tfidf_matrix[indices_to_search[k]])]]

\* recommendations.py:157-173
Sugerencia(id, score) ==
    [id |-> id, raw_score |-> score,
     accion_recomendada |-> IF AtLeastThreshold(score) THEN "use_suggestion" ELSE "review"]

\* ------------------------------------------------------------------- state
QueryThreads == {"q1"}            \* threads serving recommend_closure_code_view
ReloadThreads == {"r1", "r2"}     \* threads serving reentrenar_modelo_view
TrainProcs == {"t1"}              \* manage.py train_incident_classifier
Builders == ReloadThreads \cup TrainProcs
Procs == QueryThreads \cup Builders

VARIABLES
    catalog,                \* the CodigoCierre table, in iteration order
    nextId,                 \* the next auto-increment id of CodigoCierre
    incidencias,            \* the Incidencia table
    modelFile,              \* the file at MODEL_PATH
    SIMILARITY_MODEL_DATA,  \* the module global of recommendations.py
    pc,                     \* where each thread or process stands
    calls,                  \* calls each thread has started
    rq,                     \* locals of each recommend call
    bl,                     \* locals of each build (reload or train command)
    response                \* what each call returned (None while running)

vars == <<catalog, nextId, incidencias, modelFile, SIMILARITY_MODEL_DATA,
          pc, calls, rq, bl, response>>

\* A request body: what json.loads makes of it
NotJson == [kind |-> "notjson"]
Body(description, application_id) ==
    [kind |-> "object", description |-> description, application_id |-> application_id]
\* a key that the object does not have
Missing == [t |-> "missing"]

Request(method, body) == [method |-> method, body |-> body]

NoRequest == Request("", NotJson)

RqInit(request) ==
    [request |-> request,
     loaded |-> None,            \* what the lazy load_model() returned
     description |-> <<>>,
     application_id |-> None,
     vectorizer |-> None,
     tfidf_matrix |-> <<>>,
     all_code_ids |-> <<>>,
     code_to_app_map |-> <<>>,
     code_ids_to_search |-> <<>>,
     cosine_similarities |-> <<>>,
     top_indices_local |-> <<>>, \* positions in code_ids_to_search, from 1
     top |-> <<>>,               \* top_indices_local still to look up
     sugerencias_response |-> <<>>,
     sources |-> {},             \* history: the values of the global it read from
     nreads |-> 0,               \* history: how many of lines 104-107 have run
     nloads |-> 0,               \* history: load_model() calls of this call
     passed |-> FALSE,           \* history: got past the availability check
     vectorized |-> FALSE]       \* history: vectorizer.transform was called

BlInit(method) ==
    [method |-> method,
     codigos |-> <<>>,           \* the rows the loop iterated
     model_data |-> None,
     loaded |-> None,            \* what load_model() returned at line 63
     saved |-> FALSE]            \* history: joblib.dump returned

\* The response of @require_POST to another method (not a JsonResponse)
HttpResponseNotAllowed == [status |-> 405, st |-> "", message |-> "", sugerencias |-> <<>>]

\* The requests and commands that are running
InFlight == {p \in DOMAIN pc : pc[p] \notin {"idle", "done"}}

Finish(t, r) ==
    /\ pc' = [pc EXCEPT ![t] = "done"]
    /\ response' = [response EXCEPT ![t] = r]

Goto(t, label) ==
    /\ pc' = [pc EXCEPT ![t] = label]
    /\ UNCHANGED response

\* ------------------------------------------- recommend_closure_code_view
\* recommendations.py:71-72: a request arrives; @require_POST
R_Start(t, requests) ==
    /\ pc[t] \in {"idle", "done"}
    /\ calls[t] < MaxCalls
    /\ calls' = [calls EXCEPT ![t] = @ + 1]
    /\ \E request \in requests :
         /\ rq' = [rq EXCEPT ![t] = RqInit(request)]
         /\ IF request.method # "POST"
            THEN Finish(t, HttpResponseNotAllowed)
            ELSE /\ pc' = [pc EXCEPT ![t] = "check"]
                 /\ response' = [response EXCEPT ![t] = None]
    /\ UNCHANGED <<catalog, nextId, incidencias, modelFile, SIMILARITY_MODEL_DATA,
                   bl>>

\* A handler that loads the artifact from the file on every call
R_Check_AlwaysLoads(t) ==
    /\ pc[t] = "check"
    /\ Goto(t, "lazyload") /\ UNCHANGED rq
    /\ UNCHANGED <<catalog, nextId, incidencias, modelFile, SIMILARITY_MODEL_DATA,
                   calls, bl>>

\* recommendations.py:77  if not SIMILARITY_MODEL_DATA
R_Check(t) ==
    /\ pc[t] = "check"
    /\ IF SIMILARITY_MODEL_DATA = None
       THEN Goto(t, "lazyload") /\ UNCHANGED rq
       ELSE Goto(t, "parse") /\ rq' = [rq EXCEPT ![t].passed = TRUE]
    /\ UNCHANGED <<catalog, nextId, incidencias, modelFile, SIMILARITY_MODEL_DATA,
                   calls, bl>>

\* recommendations.py:79, right-hand side: load_model()
R_LazyLoad(t) ==
    /\ pc[t] = "lazyload"
    /\ rq' = [rq EXCEPT ![t].loaded = load_model(modelFile), ![t].nloads = @ + 1]
    /\ Goto(t, "lazystore")
    /\ UNCHANGED <<catalog, nextId, incidencias, modelFile, SIMILARITY_MODEL_DATA,
                   calls, bl>>

\* A handler that drops what its lazy load returned
R_LazyStore_Discards(t) ==
    /\ pc[t] = "lazystore"
    /\ SIMILARITY_MODEL_DATA' = SIMILARITY_MODEL_DATA
    /\ Goto(t, "recheck")
    /\ UNCHANGED <<catalog, nextId, incidencias, modelFile, calls, rq, bl>>

\* recommendations.py:79, the store into the global
R_LazyStore(t) ==
    /\ pc[t] = "lazystore"
    /\ SIMILARITY_MODEL_DATA' = rq[t].loaded
    /\ Goto(t, "recheck")
    /\ UNCHANGED <<catalog, nextId, incidencias, modelFile, calls, rq, bl>>

\* A handler that goes on after the lazy load whatever it gave
R_Recheck_GoesOn(t) ==
    /\ pc[t] = "recheck"
    /\ Goto(t, "parse") /\ rq' = [rq EXCEPT ![t].passed = TRUE]
    /\ UNCHANGED <<catalog, nextId, incidencias, modelFile, SIMILARITY_MODEL_DATA,
                   calls, bl>>

\* recommendations.py:80-81
R_Recheck(t) ==
    /\ pc[t] = "recheck"
    /\ IF SIMILARITY_MODEL_DATA = None
       THEN Finish(t, ErrorResponse(503, "unavailable")) /\ UNCHANGED rq
       ELSE Goto(t, "parse") /\ rq' = [rq EXCEPT ![t].passed = TRUE]
    /\ UNCHANGED <<catalog, nextId, incidencias, modelFile, SIMILARITY_MODEL_DATA,
                   calls, bl>>

\* data.get(key, default)
Get(body, value, default) == IF value = Missing THEN default ELSE value

\* A handler whose try block starts after the fields are read: a body that is
\* not an object, or a description that is not text, leaves the view as an
\* exception and Django answers with its own 500 page
ParseResult_Uncaught(body) ==
    IF body.kind = "notjson" THEN ErrorResponse(400, "not_json")
    ELSE IF body.kind # "object"
    THEN [status |-> 500, st |-> "", message |-> "", sugerencias |-> <<>>]
    ELSE LET description == Get(body, body.description, Str(<<>>))
         IN  IF description.t # "str"
             THEN [status |-> 500, st |-> "", message |-> "", sugerencias |-> <<>>]
             ELSE IF description.v = <<>>
             THEN ErrorResponse(400, "empty_description")
             ELSE None

\* recommendations.py:86-101.  The result is the response returned here, or
\* None when the call goes on to line 104.
ParseResult(body) ==
    IF body.kind = "notjson" THEN ErrorResponse(400, "not_json")  \* JSONDecodeError
    ELSE IF body.kind # "object"
    THEN ErrorResponse(500, "unexpected")          \* data.get: AttributeError
    ELSE LET description == Get(body, body.description, Str(<<>>))
         IN  IF description.t # "str"
             THEN ErrorResponse(500, "unexpected") \* description[:50]: TypeError
             ELSE IF description.v = <<>>
             THEN ErrorResponse(400, "empty_description")
             ELSE None

R_Parse(t) ==
    /\ pc[t] = "parse"
    /\ LET body == rq[t].request.body
           r == ParseResult(body)
       IN  IF r # None
           THEN Finish(t, r) /\ UNCHANGED rq
           ELSE /\ Goto(t, "rd_vectorizer")
                /\ rq' = [rq EXCEPT
                      ![t].description = body.description.v,
                      ![t].application_id = Get(body, body.application_id, None)]
    /\ UNCHANGED <<catalog, nextId, incidencias, modelFile, SIMILARITY_MODEL_DATA,
                   calls, bl>>

\* recommendations.py:104-106: one read of the global per line; None[...] is
\* a TypeError, caught at line 180
R_ReadVectorizer(t) ==
    /\ pc[t] = "rd_vectorizer"
    /\ IF SIMILARITY_MODEL_DATA = None
       THEN Finish(t, ErrorResponse(500, "unexpected")) /\ UNCHANGED rq
       ELSE /\ Goto(t, "rd_tfidf_matrix")
            /\ rq' = [rq EXCEPT ![t].vectorizer = SIMILARITY_MODEL_DATA.vectorizer,
                                ![t].sources = @ \cup {SIMILARITY_MODEL_DATA},
                                ![t].nreads = @ + 1]
    /\ UNCHANGED <<catalog, nextId, incidencias, modelFile, SIMILARITY_MODEL_DATA,
                   calls, bl>>

R_ReadMatrix(t) ==
    /\ pc[t] = "rd_tfidf_matrix"
    /\ IF SIMILARITY_MODEL_DATA = None
       THEN Finish(t, ErrorResponse(500, "unexpected")) /\ UNCHANGED rq
       ELSE /\ Goto(t, "rd_code_ids")
            /\ rq' = [rq EXCEPT ![t].tfidf_matrix = SIMILARITY_MODEL_DATA.tfidf_matrix,
                                ![t].sources = @ \cup {SIMILARITY_MODEL_DATA},
                                ![t].nreads = @ + 1]
    /\ UNCHANGED <<catalog, nextId, incidencias, modelFile, SIMILARITY_MODEL_DATA,
                   calls, bl>>

R_ReadCodeIds(t) ==
    /\ pc[t] = "rd_code_ids"
    /\ IF SIMILARITY_MODEL_DATA = None
       THEN Finish(t, ErrorResponse(500, "unexpected")) /\ UNCHANGED rq
       ELSE /\ Goto(t, "rd_code_to_app_map")
            /\ rq' = [rq EXCEPT ![t].all_code_ids = SIMILARITY_MODEL_DATA.code_ids,
                                ![t].sources = @ \cup {SIMILARITY_MODEL_DATA},
                                ![t].nreads = @ + 1]
    /\ UNCHANGED <<catalog, nextId, incidencias, modelFile, SIMILARITY_MODEL_DATA,
                   calls, bl>>

\* A handler that filters the matrix rows and keeps the whole identifier list
R_ReadMapAndRank_UnfilteredIds(t) ==
    /\ pc[t] = "rd_code_to_app_map"
    /\ IF SIMILARITY_MODEL_DATA = None
       THEN Finish(t, ErrorResponse(500, "unexpected")) /\ UNCHANGED rq
       ELSE LET code_to_app_map == GetMap(SIMILARITY_MODEL_DATA)
                c == Candidates(rq[t].vectorizer, rq[t].tfidf_matrix, rq[t].all_code_ids,
                                code_to_app_map, rq[t].description, rq[t].application_id)
            IN  IF c.err # None
                THEN /\ Finish(t, c.err)
                     /\ rq' = [rq EXCEPT ![t].code_to_app_map = code_to_app_map,
                                         ![t].sources = @ \cup {SIMILARITY_MODEL_DATA},
                                         ![t].nreads = @ + 1,
                                         ![t].vectorized = c.vectorized]
                ELSE /\ Goto(t, "lookup")
                     /\ \E top \in TopIndices(c.scores) :
                          rq' = [rq EXCEPT
                              ![t].code_to_app_map = code_to_app_map,
                              ![t].sources = @ \cup {SIMILARITY_MODEL_DATA},
                              ![t].nreads = @ + 1,
                              ![t].code_ids_to_search = rq[t].all_code_ids,
                              ![t].cosine_similarities = c.scores,
                              ![t].top_indices_local = top,
                              ![t].top = top,
                              ![t].vectorized = TRUE]
    /\ UNCHANGED <<catalog, nextId, incidencias, modelFile, SIMILARITY_MODEL_DATA,
                   calls, bl>>

\* recommendations.py:107-146: the last read of the global, then the filter,
\* the vectorisation, the similarities and the top-k selection (all local)
R_ReadMapAndRank(t) ==
    /\ pc[t] = "rd_code_to_app_map"
    /\ IF SIMILARITY_MODEL_DATA = None
       THEN Finish(t, ErrorResponse(500, "unexpected")) /\ UNCHANGED rq
       ELSE LET code_to_app_map == GetMap(SIMILARITY_MODEL_DATA)
                c == Candidates(rq[t].vectorizer, rq[t].tfidf_matrix, rq[t].all_code_ids,
                                code_to_app_map, rq[t].description, rq[t].application_id)
            IN  IF c.err # None
                THEN /\ Finish(t, c.err)
                     /\ rq' = [rq EXCEPT ![t].code_to_app_map = code_to_app_map,
                                         ![t].sources = @ \cup {SIMILARITY_MODEL_DATA},
                                         ![t].nreads = @ + 1,
                                         ![t].vectorized = c.vectorized]
                ELSE /\ Goto(t, "lookup")
                     /\ \E top \in TopIndices(c.scores) :
                          rq' = [rq EXCEPT
                              ![t].code_to_app_map = code_to_app_map,
                              ![t].sources = @ \cup {SIMILARITY_MODEL_DATA},
                              ![t].nreads = @ + 1,
                              ![t].code_ids_to_search = c.ids,
                              ![t].cosine_similarities = c.scores,
                              ![t].top_indices_local = top,
                              ![t].top = top,
                              ![t].vectorized = TRUE]
    /\ UNCHANGED <<catalog, nextId, incidencias, modelFile, SIMILARITY_MODEL_DATA,
                   calls, bl>>

\* CodigoCierre.objects.get(pk=...) finds a row
Exists(cat, pk) == \E k \in 1..Len(cat) : cat[k].id = pk

\* A handler for which a selected code missing from the catalog is an error
R_Lookup_FailsOnMissing(t) ==
    /\ pc[t] = "lookup"
    /\ LET idx == Head(rq[t].top)
           score == rq[t].cosine_similarities[idx]
           predicted_code_id == rq[t].code_ids_to_search[idx]
           sugerencias_response ==
               Append(rq[t].sugerencias_response, Sugerencia(predicted_code_id, score))
       IN  /\ rq' = [rq EXCEPT ![t].top = Tail(@),
                               ![t].sugerencias_response = sugerencias_response]
           /\ IF ~Exists(catalog, predicted_code_id)
              THEN Finish(t, ErrorResponse(500, "unexpected"))
              ELSE IF Tail(rq[t].top) = <<>>
              THEN Finish(t, JsonResponse(200, "success", "", sugerencias_response))
              ELSE Goto(t, "lookup")
    /\ UNCHANGED <<catalog, nextId, incidencias, modelFile, SIMILARITY_MODEL_DATA,
                   calls, bl>>

\* recommendations.py:150-178: one catalog query per selected index, then the
\* response
R_Lookup(t) ==
    /\ pc[t] = "lookup"
    /\ LET idx == Head(rq[t].top)
           score == rq[t].cosine_similarities[idx]
           predicted_code_id == rq[t].code_ids_to_search[idx]
           sugerencias_response ==
               IF Exists(catalog, predicted_code_id)
               THEN Append(rq[t].sugerencias_response, Sugerencia(predicted_code_id, score))
               ELSE rq[t].sugerencias_response            \* DoesNotExist: continue
       IN  /\ rq' = [rq EXCEPT ![t].top = Tail(@),
                               ![t].sugerencias_response = sugerencias_response]
           /\ IF Tail(rq[t].top) = <<>>
              THEN Finish(t, JsonResponse(200, "success", "", sugerencias_response))
              ELSE Goto(t, "lookup")
    /\ UNCHANGED <<catalog, nextId, incidencias, modelFile, SIMILARITY_MODEL_DATA,
                   calls, bl>>

\* ---------------------- build_and_save_similarity_model and its two callers
\* What the train command writes to stdout / stderr
Stdout(message) == [status |-> 0, st |-> "success", message |-> message, sugerencias |-> <<>>]
Stderr(message) == [status |-> 0, st |-> "error", message |-> message, sugerencias |-> <<>>]

\* build_and_save_similarity_model() returned: reentrenar_modelo_view goes on
\* to line 63, Command.handle writes its success line (line 15)
Returned(p) ==
    IF p \in ReloadThreads
    THEN Goto(p, "load")
    ELSE Finish(p, Stdout("completada"))

\* build_and_save_similarity_model() raised: recommendations.py:66-68 and
\* train_incident_classifier.py:16-18
Raised(p) ==
    IF p \in ReloadThreads
    THEN Finish(p, ErrorResponse(500, "error_reentrenar"))
    ELSE Finish(p, Stderr("error"))

\* recommendations.py:49-58 (a request arrives) and
\* train_incident_classifier.py:10-13 (the command starts)
B_Start(p) ==
    /\ pc[p] \in {"idle", "done"}
    /\ calls[p] < MaxCalls
    /\ calls' = [calls EXCEPT ![p] = @ + 1]
    /\ \E method \in (IF p \in ReloadThreads THEN {"POST", "GET"} ELSE {"POST"}) :
         /\ bl' = [bl EXCEPT ![p] = BlInit(method)]
         /\ IF method # "POST"
            THEN Finish(p, ErrorResponse(405, "metodo_no_permitido"))
            ELSE /\ pc' = [pc EXCEPT ![p] = "b_exists"]
                 /\ response' = [response EXCEPT ![p] = None]
    /\ UNCHANGED <<catalog, nextId, incidencias, modelFile, SIMILARITY_MODEL_DATA,
                   rq>>

\* A build that opens the artifact file before it looks at the catalog
B_Exists_OpensFirst(p) ==
    /\ pc[p] = "b_exists"
    /\ modelFile' = FilePartial
    /\ IF catalog = <<>> THEN Returned(p) ELSE Goto(p, "b_iterate")
    /\ UNCHANGED <<catalog, nextId, incidencias, SIMILARITY_MODEL_DATA,
                   calls, rq, bl>>

\* incident_classifier.py:29-34: codigos.exists()
B_Exists(p) ==
    /\ pc[p] = "b_exists"
    /\ IF catalog = <<>> THEN Returned(p) ELSE Goto(p, "b_iterate")
    /\ UNCHANGED <<catalog, nextId, incidencias, modelFile, SIMILARITY_MODEL_DATA,
                   calls, rq, bl>>

\* A build that adds its rows to those of the artifact already in the file
B_Iterate_Accumulates(p) ==
    /\ pc[p] = "b_iterate"
    /\ LET fresh == BuildModelData(catalog, incidencias)
           old == load_model(modelFile)
           model_data ==
               IF fresh = None \/ old = None THEN fresh
               ELSE [fresh EXCEPT !.code_ids = old.code_ids \o @,
                                  !.tfidf_matrix = old.tfidf_matrix \o @]
       IN  IF model_data = None
           THEN Raised(p) /\ UNCHANGED bl
           ELSE /\ Goto(p, "b_open")
                /\ bl' = [bl EXCEPT ![p].codigos = catalog, ![p].model_data = model_data]
    /\ UNCHANGED <<catalog, nextId, incidencias, modelFile, SIMILARITY_MODEL_DATA,
                   calls, rq>>

\* incident_classifier.py:36-76: the loop over the rows and fit_transform
B_Iterate(p) ==
    /\ pc[p] = "b_iterate"
    /\ LET model_data == BuildModelData(catalog, incidencias)
       IN  IF model_data = None
           THEN Raised(p) /\ UNCHANGED bl
           ELSE /\ Goto(p, "b_open")
                /\ bl' = [bl EXCEPT ![p].codigos = catalog, ![p].model_data = model_data]
    /\ UNCHANGED <<catalog, nextId, incidencias, modelFile, SIMILARITY_MODEL_DATA,
                   calls, rq>>

\* incident_classifier.py:78: joblib.dump opens MODEL_PATH for writing, which
\* truncates it
B_Open(p) ==
    /\ pc[p] = "b_open"
    /\ modelFile' = FilePartial
    /\ Goto(p, "b_write")
    /\ UNCHANGED <<catalog, nextId, incidencias, SIMILARITY_MODEL_DATA,
                   calls, rq, bl>>

Writing(p) == pc[p] = "b_write"

\* What the file holds when p's joblib.dump has written its last byte: p's
\* pickle, unless another dump is in the middle of writing the same file, when
\* the bytes of the two may be mixed
Written(p) ==
    {FileOf(bl[p].model_data)} \cup
        (IF \E q \in Builders \ {p} : Writing(q) THEN {FilePartial} ELSE {})

\* A build that also puts the artifact it wrote in the memory of the service
B_Write_Publishes(p) ==
    /\ pc[p] = "b_write"
    /\ modelFile' \in Written(p)
    /\ SIMILARITY_MODEL_DATA' = bl[p].model_data
    /\ bl' = [bl EXCEPT ![p].saved = TRUE, ![p].codigos = <<>>, ![p].model_data = None]
    /\ Returned(p)
    /\ UNCHANGED <<catalog, nextId, incidencias, calls, rq>>

\* incident_classifier.py:78-79: joblib.dump returns
B_Write(p) ==
    /\ pc[p] = "b_write"
    /\ modelFile' \in Written(p)
    /\ bl' = [bl EXCEPT ![p].saved = TRUE, ![p].codigos = <<>>, ![p].model_data = None]
    /\ Returned(p)
    /\ UNCHANGED <<catalog, nextId, incidencias, SIMILARITY_MODEL_DATA,
                   calls, rq>>

\* incident_classifier.py:78: joblib.dump raises part-way (an I/O error)
B_WriteFail(p) ==
    /\ pc[p] = "b_write"
    /\ modelFile' = FilePartial
    /\ bl' = [bl EXCEPT ![p].codigos = <<>>, ![p].model_data = None]
    /\ Raised(p)
    /\ UNCHANGED <<catalog, nextId, incidencias, SIMILARITY_MODEL_DATA,
                   calls, rq>>

\* recommendations.py:63, right-hand side: load_model()
L_Load(p) ==
    /\ pc[p] = "load"
    /\ bl' = [bl EXCEPT ![p].loaded = load_model(modelFile)]
    /\ Goto(p, "assign")
    /\ UNCHANGED <<catalog, nextId, incidencias, modelFile, SIMILARITY_MODEL_DATA,
                   calls, rq>>

\* recommendations.py:63 (the store into the global) and line 65
L_Assign(p) ==
    /\ pc[p] = "assign"
    /\ SIMILARITY_MODEL_DATA' = bl[p].loaded
    /\ Finish(p, JsonResponse(200, "success", "reentrenado", <<>>))
    /\ UNCHANGED <<catalog, nextId, incidencias, modelFile, calls, rq, bl>>

\* ------------------------------------------------ the catalog (cod_cierre.py)
\* cod_cierre.py:109-126: form.save() of a new row
registrar_cod_cierre(codes) ==
    /\ nextId <= MaxCodes
    /\ \E c \in codes :
         catalog' = Append(catalog,
                      Codigo(nextId, c.desc_cod_cierre, c.causa_cierre, c.aplicacion))
    /\ nextId' = nextId + 1
    /\ UNCHANGED <<incidencias, modelFile, SIMILARITY_MODEL_DATA, pc, calls, rq, bl,
                   response>>

\* cod_cierre.py:186-203: codigo_a_eliminar.delete()
eliminar_cod_cierre ==
    /\ \E k \in 1..Len(catalog) :
         catalog' = SubSeq(catalog, 1, k - 1) \o SubSeq(catalog, k + 1, Len(catalog))
    /\ UNCHANGED <<nextId, incidencias, modelFile, SIMILARITY_MODEL_DATA, pc, calls,
                   rq, bl, response>>

\* ----------------------------------------------------------- specification
\* The process starts with the catalog as it is and either no artifact file
\* or the file an earlier train command wrote from it; importing
\* recommendations.py runs line 34, SIMILARITY_MODEL_DATA = load_model().
InitWith(tables) ==
    /\ \E tb \in tables : catalog = tb.catalog /\ incidencias = tb.incidencias
    /\ nextId = Len(catalog) + 1
    /\ modelFile \in {FileAbsent} \cup
          (IF BuildModelData(catalog, incidencias) = None THEN {}
           ELSE {FileOf(BuildModelData(catalog, incidencias))})
    /\ SIMILARITY_MODEL_DATA = load_model(modelFile)
    /\ pc = [p \in Procs |-> "idle"]
    /\ calls = [p \in Procs |-> 0]
    /\ rq = [t \in QueryThreads |-> RqInit(NoRequest)]
    /\ bl = [p \in Builders |-> BlInit("")]
    /\ response = [p \in Procs |-> None]

\* --- Spec: the request threads of one server process, interleaved
Catalogs ==
    { <<>>,
      << Codigo(1, <<"RED", SP, "vpn">>, <<>>, Num(7)),
         Codigo(2, <<"dns">>, <<>>, None) >> }

Requests ==
    { Request("POST", NotJson),
      Request("POST", Body(Str(<<"red">>), Missing)) }

Init == InitWith({[catalog |-> c, incidencias |-> {}] : c \in Catalogs})

\* A step of a recommend call, a build or a reload that is under way
Step ==
    \/ \E t \in QueryThreads :
         \/ R_Check(t)
         \/ R_LazyLoad(t)
         \/ R_LazyStore(t)
         \/ R_Recheck(t)
         \/ R_Parse(t)
         \/ R_ReadVectorizer(t)
         \/ R_ReadMatrix(t)
         \/ R_ReadCodeIds(t)
         \/ R_ReadMapAndRank(t)
         \/ R_Lookup(t)
    \/ \E p \in Builders :
         \/ B_Exists(p)
         \/ B_Iterate(p)
         \/ B_Open(p)
         \/ B_Write(p)
         \/ B_WriteFail(p)
    \/ \E p \in ReloadThreads :
         \/ L_Load(p)
         \/ L_Assign(p)

Next ==
    \/ \E t \in QueryThreads : R_Start(t, Requests)
    \/ \E p \in ReloadThreads : B_Start(p)
    \/ Step
    \/ eliminar_cod_cierre

Spec == Init /\ [][Next]_vars

\* --- SpecSeq: one request or command at a time (the train command too), on
\* more catalogs, incident rows and request bodies
SeqTables ==
    { [catalog |-> <<>>, incidencias |-> {}],
      [catalog |-> << Codigo(1, <<"RED", SP, "vpn">>, <<>>, Num(7)),
                      Codigo(2, <<"dns">>, <<"the">>, None) >>,
       incidencias |-> { Incidencia(2, 1, Str(<<"vpn">>), None, Str(<<>>), None),
                         Incidencia(2, 2, Str(<<"RED">>), None, None, Str(<<"dns">>)) }],
      [catalog |-> << Codigo(1, <<"red">>, <<"vpn">>, Num(7)),
                      Codigo(2, <<"red">>, <<>>, Num(9)) >>,
       incidencias |-> {}],
      [catalog |-> << Codigo(1, <<"the">>, <<>>, None) >>, incidencias |-> {}] }

NewCodes == { Codigo(0, <<"dns", SP, "red">>, <<>>, Num(9)) }

\* descriptions that end the call at line 92-101, and those that go on
BadDescriptions == { Missing, None, Num(5), Str(<<>>) }
Descriptions ==
    { Str(<<SP>>), Str(<<"the">>), Str(<<"red">>), Str(<<SP, "RED", SP, "vpn">>),
      Str(<<"dns">>) }

ApplicationIds ==
    { Missing, None, Num(0), Num(7), Num(9), Str(<<>>), Str(<<"0">>),
      Str(<<"9">>), Str(<<"x">>) }

SeqRequests ==
    { Request("GET", NotJson), Request("POST", NotJson),
      Request("POST", [kind |-> "array"]) }
    \cup { Request("POST", Body(d, a)) : d \in BadDescriptions, a \in {Missing, Num(9)} }
    \cup { Request("POST", Body(d, a)) : d \in Descriptions, a \in {Missing, Num(9)} }
    \cup { Request("POST", Body(d, a)) :
               d \in {Str(<<"red">>), Str(<<SP, "RED", SP, "vpn">>)}, a \in ApplicationIds }

SeqInit == InitWith(SeqTables)

Idle == InFlight = {}

SeqNext ==
    \/ \E t \in QueryThreads : Idle /\ R_Start(t, SeqRequests)
    \/ \E p \in {"r1"} \cup TrainProcs : Idle /\ B_Start(p)
    \/ Idle /\ registrar_cod_cierre(NewCodes)
    \/ eliminar_cod_cierre
    \/ Step

SpecSeq == SeqInit /\ [][SeqNext]_vars

\* --- SpecRank: one call at a time over a catalog of more than TOP_K codes,
\* two of them with the same text and one with stop words only
RankTables ==
    { [catalog |-> << Codigo(1, <<"RED", SP, "vpn">>, <<>>, Num(7)),
                      Codigo(2, <<"red">>, <<>>, None),
                      Codigo(3, <<"dns">>, <<"the">>, None),
                      Codigo(4, <<>>, <<"red">>, Num(9)),
                      Codigo(5, <<"the">>, <<>>, None) >>,
       incidencias |-> {}] }

RankRequests ==
    { Request("POST", Body(d, a)) :
        d \in { Str(<<"red">>), Str(<<"dns">>), Str(<<"vpn">>), Str(<<"the">>),
                Str(<<"red", SP, "vpn">>) },
        a \in { Missing, Num(9) } }

RankInit == InitWith(RankTables)

RankNext ==
    \/ \E t \in QueryThreads : Idle /\ R_Start(t, RankRequests)
    \/ \E p \in {"r1"} : Idle /\ B_Start(p)
    \/ eliminar_cod_cierre
    \/ Step

SpecRank == RankInit /\ [][RankNext]_vars

\* --- SpecScore: lines 150-178 applied to any similarity.  The call stands
\* at line 150 with one candidate selected; its similarity (the square of
\* the cosine, in lowest terms) is drawn from the fractions of [0, 1] with a
\* denominator up to MaxDen.
Scores ==
    { s \in [num : 0..MaxDen, den : 1..MaxDen] : s.num <= s.den /\ Gcd(s.num, s.den) = 1 }

ScoreInit ==
    /\ catalog = << Codigo(1, <<"red">>, <<>>, None) >>
    /\ nextId = 2
    /\ incidencias = {}
    /\ modelFile = FileOf(BuildModelData(catalog, incidencias))
    /\ SIMILARITY_MODEL_DATA = load_model(modelFile)
    /\ pc = [p \in Procs |-> IF p \in QueryThreads THEN "lookup" ELSE "idle"]
    /\ calls = [p \in Procs |-> IF p \in QueryThreads THEN 1 ELSE 0]
    /\ \E score \in Scores :
         rq = [t \in QueryThreads |->
                 [RqInit(Request("POST", Body(Str(<<"red">>), Missing))) EXCEPT
                     !.description = <<"red">>,
                     !.vectorizer = SIMILARITY_MODEL_DATA.vectorizer,
                     !.tfidf_matrix = SIMILARITY_MODEL_DATA.tfidf_matrix,
                     !.all_code_ids = SIMILARITY_MODEL_DATA.code_ids,
                     !.code_to_app_map = SIMILARITY_MODEL_DATA.code_to_app_map,
                     !.code_ids_to_search = SIMILARITY_MODEL_DATA.code_ids,
                     !.cosine_similarities = <<score>>,
                     !.top_indices_local = <<1>>,
                     !.top = <<1>>,
                     !.sources = {SIMILARITY_MODEL_DATA},
                     !.nreads = 4,
                     !.passed = TRUE,
                     !.vectorized = TRUE]]
    /\ bl = [p \in Builders |-> BlInit("")]
    /\ response = [p \in Procs |-> None]

ScoreNext == \E t \in QueryThreads : R_Lookup(t)

SpecScore == ScoreInit /\ [][ScoreNext]_vars

\* --- SpecHist: the train command over a code with up to HISTORY_LIMIT +
\* MaxExtra incidents, opened on days 1, 2, ...  The incidents of the first
\* MaxExtra days hold the word `old`; one incident of the other code may have
\* been opened after all of them.
HistIncidencias(n, old, other) ==
    { Incidencia(1, d,
                 IF d <= MaxExtra THEN Str(<<old>>) ELSE Str(<<"RED">>),
                 None, Str(<<>>),
                 IF d % 2 = 0 THEN Str(<<"vpn">>) ELSE None) : d \in 1..n }
    \cup { Incidencia(2, HISTORY_LIMIT + MaxExtra + d, Str(<<"dns">>), None, None, None) :
               d \in 1..other }

HistTables ==
    { [catalog |-> << Codigo(1, <<"red">>, <<>>, None), Codigo(2, <<"vpn">>, <<>>, Num(7)) >>,
       incidencias |-> HistIncidencias(n, old, other)] :
        n \in 0..(HISTORY_LIMIT + MaxExtra), old \in {"dns", "red"}, other \in 0..1 }

HistInit == InitWith(HistTables)

HistNext ==
    \E p \in TrainProcs :
        \/ B_Start(p)
        \/ B_Exists(p)
        \/ B_Iterate(p)
        \/ B_Open(p)
        \/ B_Write(p)
        \/ B_WriteFail(p)

SpecHist == HistInit /\ [][HistNext]_vars

\* --- SpecFilter: recommend calls, one at a time, on a service that loaded
\* at import the file it found: the file the present build writes for the
\* catalog, or a file of the same catalog with an empty application map, or
\* one with no application map at all (the case line 107 gives a default
\* for).
FilterCatalog ==
    << Codigo(1, <<"RED", SP, "vpn">>, <<>>, Num(7)),
       Codigo(2, <<"dns">>, <<"red">>, None),
       Codigo(3, <<"red">>, <<>>, Num(9)) >>

FilterFiles ==
    LET A == BuildModelData(FilterCatalog, {})
        items == Pickle(A)
    IN  { FileOf(A),
          [st |-> "complete", data |-> SubSeq(items, 1, 3) \o << <<"code_to_app_map", <<>>>> >>],
          [st |-> "complete", data |-> SubSeq(items, 1, 3)] }

FilterRequests ==
    { Request("POST", Body(d, a)) :
        d \in {Str(<<"red">>), Str(<<SP, "RED", SP, "vpn">>)}, a \in ApplicationIds }

FilterInit ==
    /\ catalog = FilterCatalog
    /\ nextId = Len(catalog) + 1
    /\ incidencias = {}
    /\ modelFile \in FilterFiles
    /\ SIMILARITY_MODEL_DATA = load_model(modelFile)
    /\ pc = [p \in Procs |-> "idle"]
    /\ calls = [p \in Procs |-> 0]
    /\ rq = [t \in QueryThreads |-> RqInit(NoRequest)]
    /\ bl = [p \in Builders |-> BlInit("")]
    /\ response = [p \in Procs |-> None]

FilterNext ==
    \E t \in QueryThreads :
        \/ R_Start(t, FilterRequests)
        \/ R_Check(t)
        \/ R_Parse(t)
        \/ R_ReadVectorizer(t)
        \/ R_ReadMatrix(t)
        \/ R_ReadCodeIds(t)
        \/ R_ReadMapAndRank(t)
        \/ R_Lookup(t)

SpecFilter == FilterInit /\ [][FilterNext]_vars

\* ------------------------------------------------------------------ claims
\* A recommend call that reached the end of the handler
Done(t) == pc[t] = "done" /\ rq[t].request.method = "POST"

\* C1: while reloads run concurrently, the vectorizer, the matrix, the
\* identifier list and the application map one recommend call uses all come
\* from one artifact: from the same value of the global.
C1_OneArtifact ==
    \A t \in QueryThreads :
        rq[t].nreads = 4 =>
            \E A \in rq[t].sources :
                /\ rq[t].vectorizer = A.vectorizer
                /\ rq[t].tfidf_matrix = A.tfidf_matrix
                /\ rq[t].all_code_ids = A.code_ids
                /\ rq[t].code_to_app_map = A.code_to_app_map

\* C2: a reload never moves the service from Loaded to Unloaded: the store of
\* line 63 into a global that holds an artifact leaves it holding one.
C2_ReloadKeepsLoaded ==
    [][\A p \in ReloadThreads :
          (pc[p] = "assign" /\ pc'[p] = "done" /\ SIMILARITY_MODEL_DATA # None)
              => SIMILARITY_MODEL_DATA' # None]_vars

\* The shape of one artifact
WellShaped(A) ==
    /\ Len(A.tfidf_matrix) = Len(A.code_ids)
    /\ \A j, k \in 1..Len(A.code_ids) : j # k => A.code_ids[j] # A.code_ids[k]
    /\ DOMAIN A.code_to_app_map = {A.code_ids[k] : k \in 1..Len(A.code_ids)}
    /\ \A k \in 1..Len(A.tfidf_matrix) :
          Len(A.tfidf_matrix[k]) = Len(A.vectorizer.vocabulary)

\* C3: in every artifact the builder persists, the matrix has as many rows as
\* there are identifiers and as the catalog had codes when the build iterated
\* it, row k belongs to the k-th code in iteration order (history or not), and
\* the application map has one entry per identifier.
C3_ArtifactShape ==
    /\ \A p \in Builders :
          pc[p] = "b_write" =>
              LET A == bl[p].model_data
                  codigos == bl[p].codigos
              IN  /\ WellShaped(A)
                  /\ Len(A.code_ids) = Len(codigos)
                  /\ \A k \in 1..Len(codigos) :
                        /\ A.code_ids[k] = codigos[k].id
                        /\ A.code_to_app_map[codigos[k].id] = AppList(codigos[k])
    /\ modelFile.st = "complete" => WellShaped(load_model(modelFile))

\* C3, its case: an artifact is being persisted for a catalog of two codes of
\* which one has incident history and the other has none
C3_Witness ==
    \E p \in Builders :
        /\ pc[p] = "b_write"
        /\ Len(bl[p].codigos) = 2
        /\ \E c \in {bl[p].codigos[k] : k \in 1..2} : UltimasIncidencias(c, incidencias) = <<>>
        /\ \E c \in {bl[p].codigos[k] : k \in 1..2} : UltimasIncidencias(c, incidencias) # <<>>

\* C4: the file at MODEL_PATH is replaced atomically: at no moment does it
\* hold a partially written artifact.
C4_AtomicReplace == modelFile.st # "partial"

\* A reload between the call of the builder and the store of line 63
Reloading(p) == pc[p] \in {"b_exists", "b_iterate", "b_open", "b_write", "load", "assign"}

\* C5: reloads are single-writer: no two reloads are under way at once.
C5_SingleWriter ==
    \A p, q \in ReloadThreads : (Reloading(p) /\ Reloading(q)) => p = q

\* C6: a recommend call that passed the availability check and carries a
\* well-formed body ends with the outcome it has against one artifact the
\* global held during the call; a reload does not make it fail.
C6_InFlightUnaffected ==
    \A t \in QueryThreads :
        (Done(t) /\ rq[t].passed /\ ParseResult(rq[t].request.body) = None) =>
            \E A \in rq[t].sources :
                LET c == Candidates(A.vectorizer, A.tfidf_matrix, A.code_ids,
                                    A.code_to_app_map, rq[t].description,
                                    rq[t].application_id)
                IN  IF c.err # None
                    THEN response[t] = c.err
                    ELSE /\ response[t].status = 200
                         /\ rq[t].code_ids_to_search = c.ids
                         /\ rq[t].cosine_similarities = c.scores

\* No reload has read an artifact from the file so far (bl[p] is the record of
\* p's latest call, which is its only one when calls[p] <= 1)
NoReloadLoaded == \A p \in ReloadThreads : calls[p] <= 1 /\ bl[p].loaded = None

\* C7: a recommend call that finds the service unloaded calls load_model() once
\* and never twice; if that load fails, and no reload has loaded an artifact,
\* the call answers 503 without an exception and without touching the body;
\* and while no build has ever written the file every call answers 503.
C7_LazyLoad ==
    \A t \in QueryThreads :
        /\ rq[t].nloads <= 1
        /\ pc[t] \in {"lazystore", "recheck"} => rq[t].nloads = 1
        /\ (Done(t) /\ ~rq[t].passed) =>
              /\ rq[t].nloads = 1
              /\ response[t] = ErrorResponse(503, "unavailable")
              /\ ~rq[t].vectorized
        /\ (Done(t) /\ rq[t].nloads = 1 /\ rq[t].loaded = None /\ NoReloadLoaded) =>
              response[t] = ErrorResponse(503, "unavailable")
        /\ (Done(t) /\ modelFile = FileAbsent) =>
              /\ response[t] = ErrorResponse(503, "unavailable")
              /\ rq[t].nloads = 1

\* C7, its case: no artifact file exists and a call has answered 503 after its
\* one load
C7_Witness ==
    \E t \in QueryThreads :
        /\ Done(t)
        /\ modelFile = FileAbsent
        /\ response[t].status = 503
        /\ rq[t].nloads = 1

\* The description of a body is absent or is blank once trimmed
BlankDescription(body) ==
    /\ body.kind = "object"
    /\ \/ body.description = Missing
       \/ body.description.t = "str" /\ strip(body.description.v) = <<>>

\* C8: a recommend call whose description is missing or is empty after
\* trimming (whitespace only included) answers 400 and vectorizes nothing.
C8_BlankDescriptionRejected ==
    \A t \in QueryThreads :
        (Done(t) /\ rq[t].passed /\ BlankDescription(rq[t].request.body)) =>
            /\ response[t] = ErrorResponse(400, "empty_description")
            /\ ~rq[t].vectorized

\* C9: a body that is not JSON is answered 400 before the model is touched:
\* the call loads nothing and its answer does not depend on the model.
C9_MalformedRejectedFirst ==
    \A t \in QueryThreads :
        (Done(t) /\ rq[t].request.body.kind = "notjson") =>
            /\ response[t] = ErrorResponse(400, "not_json")
            /\ rq[t].nloads = 0

\* The application filter lets the code through: it is linked to no
\* application, or to the one asked for
LetThrough(application_id, app_list) ==
    \/ app_list = <<>>
    \/ int(application_id) # None /\ InList(int(application_id).v, app_list)

\* the successful recommend calls for which `filtered` holds of the
\* application_id return only codes the filter lets through
OnlyLetThrough(filtered(_)) ==
    \A t \in QueryThreads :
        (Done(t) /\ response[t].status = 200 /\ filtered(rq[t].application_id)) =>
            \A k \in 1..Len(response[t].sugerencias) :
                LetThrough(rq[t].application_id,
                           MapGet(rq[t].code_to_app_map, response[t].sugerencias[k].id))

Supplied(application_id) == application_id # None

\* C10, as stated: whenever an application_id is supplied, every returned code
\* is linked to no application or to that one.
C10_FilterExact == OnlyLetThrough(Supplied)

\* C10, amended: whenever a truthy application_id is supplied (not 0, not ""),
\* every returned code is, in the application map the call read, linked to no
\* application or to int(application_id); and whatever is supplied, the
\* candidates are exactly the codes the filter lets through, or all the codes
\* when the application_id is falsy.
C10_FilterExactTruthy ==
    /\ OnlyLetThrough(Truthy)
    /\ \A t \in QueryThreads :
          (Done(t) /\ response[t].status = 200) =>
              \A k \in 1..Len(rq[t].all_code_ids) :
                  LET id == rq[t].all_code_ids[k]
                  IN  InList(id, rq[t].code_ids_to_search) <=>
                         \/ ~Truthy(rq[t].application_id)
                         \/ LetThrough(rq[t].application_id,
                                       MapGet(rq[t].code_to_app_map, id))

\* C10, its case: application 9 is asked for, a code linked to application 7
\* matches the description better than everything returned, and it is left out
C10_Witness ==
    \E t \in QueryThreads :
        /\ Done(t) /\ response[t].status = 200
        /\ rq[t].application_id = Num(9)
        /\ response[t].sugerencias # <<>>
        /\ \E k \in 1..Len(rq[t].all_code_ids) :
              LET id == rq[t].all_code_ids[k]
                  score == cosine_similarity(
                               transform(rq[t].vectorizer, normalizar_texto(rq[t].description)),
                               rq[t].tfidf_matrix[k])
              IN  /\ MapGet(rq[t].code_to_app_map, id) = <<7>>
                  /\ ~InList(id, rq[t].code_ids_to_search)
                  /\ \A j \in 1..Len(response[t].sugerencias) :
                        ScoreLess(response[t].sugerencias[j].raw_score, score)

\* A call that read the four components (lines 104-107) and is over
Ranked(t) == Done(t) /\ rq[t].nreads = 4

\* The application_id is one the filter can compare: absent, or a number, or
\* a decimal numeral
Comparable(application_id) == ~Truthy(application_id) \/ int(application_id) # None

\* The filter of lines 113-124 is applied and lets no row of the artifact the
\* call read through
ExcludesEveryRow(t) ==
    /\ Truthy(rq[t].application_id)
    /\ int(rq[t].application_id) # None
    /\ \A k \in 1..Len(rq[t].all_code_ids) :
          ~LetThrough(rq[t].application_id,
                      MapGet(rq[t].code_to_app_map, rq[t].all_code_ids[k]))

\* C11: when the application filter excludes every row of the artifact, the
\* call answers 404 (not 400, not 503) and computes no similarity; and it
\* answers 404 in no other case.
C11_NoCandidates ==
    \A t \in QueryThreads :
        /\ (Ranked(t) /\ ExcludesEveryRow(t)) =>
              /\ response[t] = ErrorResponse(404, "no_codes")
              /\ ~rq[t].vectorized
              /\ rq[t].cosine_similarities = <<>>
        /\ (Done(t) /\ response[t].status = 404) => (Ranked(t) /\ ExcludesEveryRow(t))

\* C11, its case: application 9 is asked for and every code of the artifact
\* is linked to another application
C11_Witness ==
    \E t \in QueryThreads :
        /\ Ranked(t) /\ ExcludesEveryRow(t)
        /\ rq[t].application_id = Num(9)
        /\ rq[t].all_code_ids # <<>>
        /\ response[t].status = 404

\* A call that made its selection (line 146) and has not failed since
Selected(t) == pc[t] = "lookup" \/ (Ranked(t) /\ response[t].status = 200)

\* C12: the selection holds min(3, candidate count) distinct candidates,
\* highest similarity first, and no candidate left out has a strictly higher
\* similarity than a selected one; the returned scores never increase along
\* the list.
C12_TopThree ==
    \A t \in QueryThreads :
        LET scores == rq[t].cosine_similarities
            sel == rq[t].top_indices_local
            left == (1..Len(scores)) \ {sel[a] : a \in 1..Len(sel)}
        IN  /\ Selected(t) =>
                  /\ Len(sel) = Min(3, Len(scores))
                  /\ \A a, b \in 1..Len(sel) :
                        /\ sel[a] \in 1..Len(scores)
                        /\ a # b => sel[a] # sel[b]
                        /\ a < b => ~ScoreLess(scores[sel[a]], scores[sel[b]])
                  /\ \A j \in left : \A a \in 1..Len(sel) :
                        ~ScoreLess(scores[sel[a]], scores[j])
            /\ (Ranked(t) /\ response[t].status = 200) =>
                  \A a, b \in 1..Len(response[t].sugerencias) :
                      a < b => ~ScoreLess(response[t].sugerencias[a].raw_score,
                                          response[t].sugerencias[b].raw_score)

\* C12, its case: more than three candidates, the first returned score
\* strictly higher than the last, and a candidate left out that scores
\* strictly lower than every selected one
C12_Witness ==
    \E t \in QueryThreads :
        LET scores == rq[t].cosine_similarities
            sel == rq[t].top_indices_local
            out == response[t].sugerencias
        IN  /\ Ranked(t) /\ response[t].status = 200
            /\ Len(scores) > 3 /\ Len(out) = 3
            /\ ScoreLess(out[3].raw_score, out[1].raw_score)
            /\ \E j \in 1..Len(scores) : \A a \in 1..Len(sel) :
                  ScoreLess(scores[j], scores[sel[a]])

\* The identifiers of the selection, in rank order
SelectedIds(t) ==
    [a \in 1..Len(rq[t].top_indices_local) |->
        rq[t].code_ids_to_search[rq[t].top_indices_local[a]]]

\* The rank of a selected identifier
RankOf(t, id) == CHOOSE a \in 1..Len(SelectedIds(t)) : SelectedIds(t)[a] = id

\* A call that made its selection ends with a success; its response holds
\* selected codes only, each once, in rank order and with its own score, and
\* holds every selected code that is in the catalog
StaleSkipped(t) ==
    (Done(t) /\ rq[t].top_indices_local # <<>>) =>
        LET out == response[t].sugerencias
            ids == SelectedIds(t)
        IN  /\ response[t].status = 200 /\ response[t].st = "success"
            /\ \A k \in 1..Len(out) :
                  /\ InList(out[k].id, ids)
                  /\ out[k].raw_score =
                        rq[t].cosine_similarities[rq[t].top_indices_local[RankOf(t, out[k].id)]]
            /\ \A j, k \in 1..Len(out) :
                  j < k => RankOf(t, out[j].id) < RankOf(t, out[k].id)
            /\ \A a \in 1..Len(ids) :
                  Exists(catalog, ids[a]) => \E k \in 1..Len(out) : out[k].id = ids[a]

\* One turn of the loop of line 150: the code is added when the catalog has
\* it and skipped when it has not, and the last turn answers with the list
LookupStep(t) ==
    (pc[t] = "lookup" /\ rq'[t].top # rq[t].top) =>
        LET id == rq[t].code_ids_to_search[Head(rq[t].top)]
            before == rq[t].sugerencias_response
            after == rq'[t].sugerencias_response
        IN  /\ IF Exists(catalog, id)
               THEN /\ Len(after) = Len(before) + 1
                    /\ SubSeq(after, 1, Len(before)) = before
                    /\ after[Len(after)].id = id
               ELSE after = before
            /\ pc'[t] \in {"lookup", "done"}
            /\ pc'[t] = "done" <=> Len(rq[t].top) = 1
            /\ pc'[t] = "done" =>
                  response'[t] = JsonResponse(200, "success", "", after)

\* C13: a selected code that is no longer in the catalog is skipped and the
\* request still succeeds: the response holds exactly the selected codes the
\* catalog had when they were looked up, in rank order; when none was left
\* the response is a success with an empty list.
C13_StaleSkipped ==
    /\ [](\A t \in QueryThreads : StaleSkipped(t))
    /\ [][\A t \in QueryThreads : LookupStep(t)]_vars

\* C13, its case: three codes were selected, some of them were deleted after
\* the build and the response holds the others
C13_Witness ==
    \E t \in QueryThreads :
        /\ Done(t) /\ response[t].status = 200
        /\ Len(rq[t].top_indices_local) = 3
        /\ Len(response[t].sugerencias) \in {1, 2}
        /\ \E a \in 1..3 : ~Exists(catalog, SelectedIds(t)[a])

\* The similarity is 0.20 or more: its square is 1/25 or more
AtLeastFifth(score) == ~FracLess(score.num, score.den, 1, 25)

\* C14: every returned result is classified by the threshold 0.20: its action
\* is "use_suggestion" exactly when its raw score is 0.20 or more and "review"
\* exactly when it is below; a score of exactly 0.20 gives "use_suggestion".
C14_Threshold ==
    \A t \in QueryThreads :
        (Done(t) /\ response[t].status = 200) =>
            \A k \in 1..Len(response[t].sugerencias) :
                LET r == response[t].sugerencias[k]
                IN  /\ r.accion_recomendada \in {"use_suggestion", "review"}
                    /\ r.accion_recomendada = "use_suggestion" <=> AtLeastFifth(r.raw_score)
                    /\ r.accion_recomendada = "review" <=> ~AtLeastFifth(r.raw_score)

\* C14, its case: a result whose score is exactly 0.20 (square 1/25) is
\* returned with "use_suggestion"
C14_Witness ==
    \E t \in QueryThreads :
        /\ Done(t) /\ response[t].status = 200
        /\ response[t].sugerencias # <<>>
        /\ response[t].sugerencias[1].raw_score = [num |-> 1, den |-> 25]
        /\ response[t].sugerencias[1].accion_recomendada = "use_suggestion"

\* The rows the filter keeps, of the components the call read
CandidateRows(t) ==
    FilterIndices(rq[t].all_code_ids, rq[t].code_to_app_map, rq[t].application_id).v

\* The query of the call as the vectorizer sees it
QueryVector(t) == transform(rq[t].vectorizer, normalizar_texto(rq[t].description))

\* The call has candidates and its description has no term in common with
\* the document of any of them
NoSharedVocabulary(t) ==
    /\ Ranked(t)
    /\ Comparable(rq[t].application_id)
    /\ CandidateRows(t) # <<>>
    /\ \A k \in 1..Len(CandidateRows(t)) :
          \A i \in 1..Len(QueryVector(t)) :
              QueryVector(t)[i] = 0 \/ rq[t].tfidf_matrix[CandidateRows(t)[k]][i] = 0

\* The call succeeded and every result has score 0 and action "review"
AllZeroReview(t) ==
    /\ response[t].status = 200
    /\ \A k \in 1..Len(response[t].sugerencias) :
          /\ response[t].sugerencias[k].raw_score = [num |-> 0, den |-> 1]
          /\ response[t].sugerencias[k].accion_recomendada = "review"

\* C15, as stated: a query that shares no vocabulary with any candidate
\* document succeeds with min(3, number of candidates) results, all of score
\* 0 and action "review".
C15_NoOverlap ==
    \A t \in QueryThreads :
        NoSharedVocabulary(t) =>
            /\ AllZeroReview(t)
            /\ Len(response[t].sugerencias) = Min(3, Len(CandidateRows(t)))

\* C15, amended: such a query succeeds, min(3, number of candidates)
\* candidates are selected, every result has score 0 and action "review", and
\* the list holds the selected codes the catalog still had: all of them, so
\* min(3, number of candidates) results, when none has been deleted.
C15_NoOverlapStale ==
    \A t \in QueryThreads :
        NoSharedVocabulary(t) =>
            /\ AllZeroReview(t)
            /\ Len(rq[t].top_indices_local) = Min(3, Len(CandidateRows(t)))
            /\ Len(response[t].sugerencias) <= Len(rq[t].top_indices_local)
            /\ (\A a \in 1..Len(SelectedIds(t)) : Exists(catalog, SelectedIds(t)[a])) =>
                  /\ Len(response[t].sugerencias) = Min(3, Len(CandidateRows(t)))
                  /\ response[t].sugerencias # <<>>

\* C15, its case: the description has a term of the vocabulary, four
\* candidates are left by the filter, none of them has the term, and three
\* results of score 0 are returned
C15_Witness ==
    \E t \in QueryThreads :
        /\ NoSharedVocabulary(t)
        /\ \E i \in 1..Len(QueryVector(t)) : QueryVector(t)[i] # 0
        /\ Len(CandidateRows(t)) = 4
        /\ Len(response[t].sugerencias) = 3
        /\ AllZeroReview(t)

\* The training document the build makes for the code `id` of RankTables (no
\* view of SpecRank edits a code or an incident)
TrainingText(id) ==
    LET tb == CHOOSE tb \in RankTables : TRUE
        c == CHOOSE c \in {tb.catalog[k] : k \in 1..Len(tb.catalog)} : c.id = id
    IN  texto_completo(c, tb.incidencias)

One == [num |-> 1, den |-> 1]

\* The call has no application filter and its normalized description is the
\* non-empty training document of row k of the artifact
AsksDocument(t, k) ==
    /\ Ranked(t)
    /\ ~Truthy(rq[t].application_id)
    /\ k \in 1..Len(rq[t].all_code_ids)
    /\ normalizar_texto(rq[t].description) # <<>>
    /\ normalizar_texto(rq[t].description) = TrainingText(rq[t].all_code_ids[k])

\* C16, as stated: a description equal to a training document gets that
\* document's code as first result, with similarity 1.0.
C16_OwnDocumentFirst ==
    \A t \in QueryThreads : \A k \in 1..Len(rq[t].all_code_ids) :
        AsksDocument(t, k) =>
            /\ response[t].status = 200
            /\ response[t].sugerencias # <<>>
            /\ response[t].sugerencias[1].id = rq[t].all_code_ids[k]
            /\ response[t].sugerencias[1].raw_score = One

\* C16, amended: when the document has a term of the vocabulary, its row has
\* similarity 1.0 with the description and so has the first selected
\* candidate; the document's code is the first result, with 1.0, when no
\* other row has similarity 1.0 and the code is still in the catalog.
C16_OwnDocumentOne ==
    \A t \in QueryThreads : \A k \in 1..Len(rq[t].all_code_ids) :
        (AsksDocument(t, k) /\ \E i \in 1..Len(QueryVector(t)) : rq[t].tfidf_matrix[k][i] # 0) =>
            LET scores == rq[t].cosine_similarities
                sel == rq[t].top_indices_local
                only == \A j \in 1..Len(scores) : j # k => scores[j] # One
            IN  /\ response[t].status = 200
                /\ rq[t].code_ids_to_search = rq[t].all_code_ids
                /\ scores[k] = One
                /\ scores[sel[1]] = One
                /\ only => sel[1] = k
                /\ (only /\ Exists(catalog, rq[t].all_code_ids[k])) =>
                      /\ response[t].sugerencias # <<>>
                      /\ response[t].sugerencias[1].id = rq[t].all_code_ids[k]
                      /\ response[t].sugerencias[1].raw_score = One

\* C16, its case: the description is the document of code 1, four other rows
\* score lower, and code 1 comes first with similarity 1.0
C16_Witness ==
    \E t \in QueryThreads :
        /\ AsksDocument(t, 1)
        /\ Len(rq[t].all_code_ids) = 5
        /\ \A j \in 2..5 : ScoreLess(rq[t].cosine_similarities[j], One)
        /\ response[t].sugerencias # <<>>
        /\ response[t].sugerencias[1].id = rq[t].all_code_ids[1]
        /\ response[t].sugerencias[1].raw_score = One

\* The build of p takes a step
BuildStep(p) == pc[p] \in {"b_exists", "b_iterate", "b_open", "b_write"} /\ pc'[p] # pc[p]

\* C17: a build that finds the catalog empty (at line 31 or, the last code
\* being deleted meanwhile, at line 43) ends there: it does not go on to
\* joblib.dump and it leaves the artifact file exactly as it was.
C17_EmptyCatalogNoWrite ==
    [][\A p \in Builders :
          (BuildStep(p) /\ pc[p] \in {"b_exists", "b_iterate"} /\ catalog = <<>>) =>
              /\ modelFile' = modelFile
              /\ pc'[p] \notin {"b_iterate", "b_open", "b_write"}
              /\ ~bl'[p].saved]_vars

\* C17, its case: a reload ran over an empty catalog, wrote nothing, and the
\* prior artifact is still in the file, whole
C17_Witness ==
    \E p \in ReloadThreads :
        /\ pc[p] = "done" /\ bl[p].method = "POST"
        /\ catalog = <<>>
        /\ ~bl[p].saved
        /\ modelFile.st = "complete"
        /\ bl[p].loaded = load_model(modelFile)
        /\ \A q \in Builders \ {p} : calls[q] = 0

\* The train command or the reload request of p is over
Ended(p) == pc[p] = "done" /\ bl[p].method = "POST"

\* C18: a build that produced no artifact (joblib.dump did not return: the
\* catalog was empty, or the write failed) is reported as a failure by its
\* caller, the train command (on stderr) or the reload endpoint (an error
\* status), never as a success.
C18_BuildFailureReported ==
    \A p \in Builders :
        (Ended(p) /\ ~bl[p].saved) =>
            /\ response[p].st = "error"
            /\ p \in ReloadThreads => response[p].status # 200

\* C19: the reload endpoint answers with a success status exactly when the
\* rebuild wrote an artifact (joblib.dump returned) and the load that
\* followed returned an artifact; in every other case it answers a failure.
C19_ReloadStatus ==
    \A p \in ReloadThreads :
        Ended(p) =>
            (response[p].status = 200 /\ response[p].st = "success")
                <=> (bl[p].saved /\ bl[p].loaded # None)

\* The step of a reload that calls load_model(): it goes on to the store, and
\* what it read from an absent or unreadable file is no artifact
ReloadLoadStep(p) ==
    (pc[p] = "load" /\ pc'[p] # "load") =>
        /\ pc'[p] = "assign"
        /\ response'[p] = response[p]
        /\ modelFile.st # "complete" => bl'[p].loaded = None

\* The same step of a recommend call, and the check that follows it: with no
\* artifact read and none in memory the call answers 503
LazyLoadStep(t) ==
    /\ (pc[t] = "lazyload" /\ pc'[t] # "lazyload") =>
          /\ pc'[t] = "lazystore"
          /\ response'[t] = response[t]
          /\ modelFile.st # "complete" => rq'[t].loaded = None
    /\ (pc[t] = "lazystore" /\ pc'[t] # "lazystore") =>
          /\ pc'[t] = "recheck"
          /\ SIMILARITY_MODEL_DATA' = rq[t].loaded
    /\ (pc[t] = "recheck" /\ pc'[t] # "recheck" /\ SIMILARITY_MODEL_DATA = None) =>
          /\ pc'[t] = "done"
          /\ response'[t] = ErrorResponse(503, "unavailable")

\* C20: load_model() never raises to its caller: the calling handler always
\* goes on to its next line; from an absent or unreadable file it gets no
\* artifact, a call that holds a value read from the file never got it from
\* such a file's bytes, and a recommend call that then finds nothing in memory
\* answers 503 (unavailable), never 500.
C20_LoadNeverRaises ==
    /\ [](\A t \in QueryThreads :
            (Done(t) /\ ~rq[t].passed) => response[t].status = 503)
    /\ [][/\ \A p \in ReloadThreads : ReloadLoadStep(p)
          /\ \A t \in QueryThreads : LazyLoadStep(t)]_vars

\* C20, its case: the artifact file is unreadable (a write of it was cut
\* short), a recommend call has read it, got nothing and answered 503
C20_Witness ==
    \E t \in QueryThreads :
        /\ Done(t)
        /\ modelFile.st = "partial"
        /\ rq[t].nloads = 1
        /\ rq[t].loaded = None
        /\ response[t] = ErrorResponse(503, "unavailable")

\* A response of the view: a JSON object with a status of "success" and a
\* list, or with a status of "error", a message and an HTTP error code
Structured(r) ==
    \/ /\ r.st = "success"
       /\ r.status = 200
    \/ /\ r.st = "error"
       /\ r.message # ""
       /\ r.status \in {400, 404, 500, 503}
       /\ r.sugerencias = <<>>

\* C21: every recommend call ends with a structured response, a success or an
\* error with a message, whatever the body, the state of the service and the
\* artifact it read (stale, or mixed from two artifacts); a call that fails in
\* an unforeseen way answers the generic error, status 500; and a call that
\* is still running has answered nothing.
C21_StructuredResponse ==
    \A t \in QueryThreads :
        /\ Done(t) => Structured(response[t])
        /\ (Done(t) /\ response[t].st = "error" /\ rq[t].passed
                /\ response[t].status \notin {400, 404}) =>
              response[t] = ErrorResponse(500, "unexpected")
        /\ pc[t] \notin {"idle", "done"} => response[t] = None

\* C21, its case: a body that is JSON but not an object (data.get raises
\* AttributeError) is answered with the generic error
C21_Witness ==
    \E t \in QueryThreads :
        /\ Done(t)
        /\ rq[t].request.body.kind = "array"
        /\ rq[t].passed
        /\ response[t] = ErrorResponse(500, "unexpected")

\* The outcome of lines 104-178 for the call of t against the artifact A:
\* the error Candidates gives, or a success over its candidates and scores
AnsweredFrom(t, A) ==
    LET c == Candidates(A.vectorizer, A.tfidf_matrix, A.code_ids, A.code_to_app_map,
                        rq[t].description, rq[t].application_id)
    IN  /\ rq[t].vectorizer = A.vectorizer
        /\ rq[t].tfidf_matrix = A.tfidf_matrix
        /\ rq[t].all_code_ids = A.code_ids
        /\ rq[t].code_to_app_map = A.code_to_app_map
        /\ IF c.err # None
           THEN response[t] = c.err
           ELSE /\ response[t].status = 200
                /\ rq[t].code_ids_to_search = c.ids
                /\ rq[t].cosine_similarities = c.scores

\* A call that found the service unloaded and a readable artifact in the file
LoadedLazily(t) == rq[t].nloads = 1 /\ rq[t].loaded # None

\* Line 77 on an unloaded service goes to the load of line 79, and the load
\* reads whatever the file holds at that moment
RetryStep(t) ==
    /\ (pc[t] = "check" /\ pc'[t] # "check" /\ SIMILARITY_MODEL_DATA = None) =>
          pc'[t] = "lazyload"
    /\ (pc[t] = "lazyload" /\ pc'[t] # "lazyload") =>
          /\ rq'[t].loaded = load_model(modelFile)
          /\ modelFile.st = "complete" => rq'[t].loaded # None

\* C22: every query that finds the service unloaded attempts load_model();
\* when the file then holds a readable artifact, the query (no other request
\* running, no reload and no restart needed) leaves the service loaded with
\* that artifact, gets past the availability check and is answered from that
\* artifact, never with 503.
C22_LazyRetry ==
    /\ [](\A t \in QueryThreads :
            /\ (pc[t] \in {"lazystore", "recheck"}) => rq[t].loaded = load_model(modelFile)
            /\ (pc[t] = "recheck") => SIMILARITY_MODEL_DATA = rq[t].loaded
            /\ (pc[t] \notin {"idle", "done", "check", "lazyload", "lazystore"}
                    /\ LoadedLazily(t)) =>
                  SIMILARITY_MODEL_DATA = rq[t].loaded
            /\ (Done(t) /\ LoadedLazily(t)) =>
                  /\ rq[t].passed
                  /\ response[t].status # 503
                  /\ rq[t].sources \subseteq {rq[t].loaded}
                  /\ rq[t].nreads = 4 => AnsweredFrom(t, rq[t].loaded))
    /\ [][\A t \in QueryThreads : RetryStep(t)]_vars

\* C22, its case: the process started with no artifact file, the train
\* command wrote one, no reload was ever called, and the query that came next
\* loaded the artifact and answered with suggestions from it
C22_Witness ==
    \E t \in QueryThreads :
        /\ Done(t) /\ LoadedLazily(t)
        /\ \A p \in ReloadThreads : calls[p] = 0
        /\ \E p \in TrainProcs : bl[p].saved
        /\ SIMILARITY_MODEL_DATA = rq[t].loaded
        /\ response[t].status = 200
        /\ response[t].sugerencias # <<>>

\* The recommend call of t takes a step
RecommendStep(t) == pc'[t] # pc[t] \/ rq'[t] # rq[t]

\* A call that found the service loaded at line 77
OnLoaded(t) == rq[t].passed /\ rq[t].nloads = 0

\* Lines 77-183, one step: only the store of line 79 writes the global, and a
\* call that finds an artifact at line 77 does not take that path
ReadOnlyStep(t) ==
    RecommendStep(t) =>
        /\ pc[t] # "lazystore" => SIMILARITY_MODEL_DATA' = SIMILARITY_MODEL_DATA
        /\ (pc[t] = "check" /\ SIMILARITY_MODEL_DATA # None) => pc'[t] = "parse"
        /\ OnLoaded(t) =>
              /\ SIMILARITY_MODEL_DATA' = SIMILARITY_MODEL_DATA
              /\ rq'[t].nloads = 0

\* A change of the global is the store of a lazy load (by a call that found
\* the global empty at line 77) or the store of a reload, and puts there the
\* whole of what load_model() returned
WholesaleStep ==
    SIMILARITY_MODEL_DATA' # SIMILARITY_MODEL_DATA =>
        \/ \E t \in QueryThreads :
             /\ pc[t] = "lazystore" /\ pc'[t] = "recheck"
             /\ rq[t].nloads = 1 /\ ~rq[t].passed
             /\ SIMILARITY_MODEL_DATA' = rq[t].loaded
        \/ \E p \in ReloadThreads :
             /\ pc[p] = "assign" /\ pc'[p] = "done"
             /\ SIMILARITY_MODEL_DATA' = bl[p].loaded

Ids(codigos) == [k \in 1..Len(codigos) |-> codigos[k].id]

\* The artifact in the file was built from the rows the build of p iterated:
\* no view of the model edits a row or an incident and identifiers are not
\* reused, so the same identifiers in the same order are the same source data
SameSourceData(p) ==
    /\ modelFile.st = "complete"
    /\ load_model(modelFile).code_ids = Ids(bl[p].codigos)

SameArtifact(A, B) ==
    /\ A.vectorizer.vocabulary = B.vectorizer.vocabulary
    /\ Len(A.tfidf_matrix) = Len(B.tfidf_matrix)
    /\ \A k \in 1..Len(A.tfidf_matrix) : Len(A.tfidf_matrix[k]) = Len(B.tfidf_matrix[k])
    /\ A.code_ids = B.code_ids
    /\ DOMAIN A.code_to_app_map = DOMAIN B.code_to_app_map
    /\ \A i \in DOMAIN A.code_to_app_map : A.code_to_app_map[i] = B.code_to_app_map[i]

\* joblib.dump returns: the file is whole and loading it gives the artifact
\* that was built
StoreStep(p) ==
    (pc[p] = "b_write" /\ pc'[p] # "b_write" /\ bl'[p].saved) =>
        /\ modelFile'.st = "complete"
        /\ load_model(modelFile') # None
        /\ SameArtifact(load_model(modelFile'), bl[p].model_data)
        /\ load_model(modelFile') = bl[p].model_data

\* The load of line 63 returns what the file holds
LoadStep(p) ==
    (pc[p] = "load" /\ pc'[p] # "load") => bl'[p].loaded = load_model(modelFile)

IncidentsOf(c, incs) == {r \in incs : r.codigo_cierre = c.id}

\* Of a set of incidents, those opened later than all but fewer than
\* HISTORY_LIMIT of the others: all of them when there are no more than that
Latest(S) ==
    {r \in S : Cardinality({o \in S : o.fecha_apertura > r.fecha_apertura}) < HISTORY_LIMIT}

\* Occurrences of the word w in a text, as the analyzer counts them
WordCount(w, texto) == tf(<<w>>, analyze(texto))

RECURSIVE HistoryCount(_, _)
\* Occurrences of w in the four text fields of the incidents of S
HistoryCount(w, S) ==
    IF S = {} THEN 0
    ELSE LET r == CHOOSE r \in S : TRUE
         IN  WordCount(w, OrEmpty(r.descripcion_incidencia)) + WordCount(w, OrEmpty(r.causa))
               + WordCount(w, OrEmpty(r.solucion_final)) + WordCount(w, OrEmpty(r.observaciones))
               + HistoryCount(w, S \ {r})

\* The position of a feature in the vocabulary, 0 when it is not there
FeatureIndex(vocabulary, f) ==
    IF \E i \in 1..Len(vocabulary) : vocabulary[i] = f
    THEN CHOOSE i \in 1..Len(vocabulary) : vocabulary[i] = f
    ELSE 0

\* Row k of the artifact A counts the word w exactly `count` times
RowCounts(A, k, w, count) ==
    LET i == FeatureIndex(A.vectorizer.vocabulary, <<w>>)
    IN  IF i = 0 THEN count = 0
        ELSE A.tfidf_matrix[k][i] = A.vectorizer.idf[i] * count

\* C26: the training document of a code holds the words of its description
\* and cause and of the incidents that reference it, of all of them when
\* they are HISTORY_LIMIT (50) or fewer and else of the 50 opened last; no
\* other incident adds a word to it, whether it references the code (an
\* older one) or another code.
C26_HistoryLimit ==
    \A p \in Builders :
        pc[p] = "b_open" =>
            \A k \in 1..Len(bl[p].codigos) : \A w \in Words :
                LET c == bl[p].codigos[k]
                    used == Latest(IncidentsOf(c, incidencias))
                IN  /\ Cardinality(used) <= HISTORY_LIMIT
                    /\ RowCounts(bl[p].model_data, k, w,
                                 WordCount(w, c.desc_cod_cierre) + WordCount(w, c.causa_cierre)
                                   + HistoryCount(w, used))

\* C26, its case: more than 50 incidents reference code 1; one of them, older
\* than the 50 latest, holds a word that is in the vocabulary (an incident of
\* the other code, opened later than all, holds it too) and that the document
\* of code 1 does not count
C26_Witness ==
    \E p \in Builders :
        /\ pc[p] = "b_open"
        /\ bl[p].codigos[1].id = 1
        /\ Cardinality(IncidentsOf(bl[p].codigos[1], incidencias)) > HISTORY_LIMIT
        /\ \E r \in IncidentsOf(bl[p].codigos[1], incidencias) :
              /\ r \notin Latest(IncidentsOf(bl[p].codigos[1], incidencias))
              /\ r.descripcion_incidencia = Str(<<"dns">>)
        /\ FeatureIndex(bl[p].model_data.vectorizer.vocabulary, <<"dns">>) # 0
        /\ RowCounts(bl[p].model_data, 1, "dns", 0)
        /\ ~RowCounts(bl[p].model_data, 2, "dns", 0)

\* A step of the train command, a write of the artifact file, or a change of
\* the catalog or of the incidents
OfflineStep ==
    \/ \E p \in TrainProcs : pc'[p] # pc[p]
    \/ modelFile' # modelFile
    \/ catalog' # catalog
    \/ incidencias' # incidencias

\* C27: the train command, every write of the artifact file and every change
\* of the catalog leave the global as it is; the global changes only by the
\* store of a reload or of a lazy load made by a call that found it empty;
\* and a call that finds the service loaded is answered from the artifact in
\* memory, whatever the file and the catalog hold by then.
C27_OnlyReloadRefreshes ==
    /\ [](\A t \in QueryThreads :
            (Done(t) /\ OnLoaded(t) /\ rq[t].nreads = 4) =>
                \E A \in rq[t].sources : AnsweredFrom(t, A))
    /\ [][/\ OfflineStep => SIMILARITY_MODEL_DATA' = SIMILARITY_MODEL_DATA
          /\ WholesaleStep]_vars

\* C27, its case: the catalog changed, the train command rewrote the file, no
\* reload was called, and a call that came afterwards is being answered from
\* the artifact the service had in memory, which is not the one in the file
C27_Witness ==
    \E t \in QueryThreads : \E p \in TrainProcs :
        /\ pc[p] = "done" /\ bl[p].saved
        /\ \A r \in ReloadThreads : calls[r] = 0
        /\ pc[t] = "lookup" /\ OnLoaded(t)
        /\ rq[t].sources = {SIMILARITY_MODEL_DATA}
        /\ modelFile.st = "complete"
        /\ load_model(modelFile) # SIMILARITY_MODEL_DATA
        /\ rq[t].all_code_ids # Ids(catalog)

\* The row of the matrix the call read that belongs to the identifier id
RowOf(t, id) == CHOOSE k \in 1..Len(rq[t].all_code_ids) : rq[t].all_code_ids[k] = id

\* The identifier is one of the artifact the call read and the filter, when
\* one is applied, lets it through
IsCandidate(t, id) ==
    /\ InList(id, rq[t].all_code_ids)
    /\ \/ ~Truthy(rq[t].application_id)
       \/ DOMAIN rq[t].code_to_app_map = {}
       \/ LetThrough(rq[t].application_id, MapGet(rq[t].code_to_app_map, id))

\* C28: in a successful response the codes are pairwise distinct, each is a
\* candidate of the request, and its score is the similarity of the query
\* with the matrix row of that very code; position by position, the filtered
\* identifiers and the similarities belong to the same rows, with and without
\* an application filter.
C28_Aligned ==
    \A t \in QueryThreads :
        (Ranked(t) /\ response[t].status = 200) =>
            LET out == response[t].sugerencias
                ids == rq[t].code_ids_to_search
            IN  /\ \A j, k \in 1..Len(out) : j # k => out[j].id # out[k].id
                /\ \A k \in 1..Len(out) :
                      /\ IsCandidate(t, out[k].id)
                      /\ InList(out[k].id, ids)
                      /\ out[k].raw_score =
                            cosine_similarity(QueryVector(t),
                                              rq[t].tfidf_matrix[RowOf(t, out[k].id)])
                /\ Len(rq[t].cosine_similarities) = Len(ids)
                /\ \A a, b \in 1..Len(ids) : a < b => RowOf(t, ids[a]) < RowOf(t, ids[b])
                /\ \A a \in 1..Len(ids) :
                      /\ IsCandidate(t, ids[a])
                      /\ rq[t].cosine_similarities[a] =
                            cosine_similarity(QueryVector(t),
                                              rq[t].tfidf_matrix[RowOf(t, ids[a])])

\* C28, its case: the filter took out the first row, so every candidate
\* stands one position before its row, and three codes are returned, the
\* first with a similarity above zero
C28_Witness ==
    \E t \in QueryThreads :
        /\ Ranked(t) /\ response[t].status = 200
        /\ Truthy(rq[t].application_id)
        /\ ~InList(rq[t].all_code_ids[1], rq[t].code_ids_to_search)
        /\ Len(rq[t].code_ids_to_search) = Len(rq[t].all_code_ids) - 1
        /\ Len(response[t].sugerencias) = 3
        /\ response[t].sugerencias[1].raw_score # [num |-> 0, den |-> 1]

\* The application_id the call read is absent or null, 0 or the empty string
NoApplication(application_id) == application_id \in {None, Num(0), Str(<<>>)}

\* Every row of the artifact the call read is a candidate, in row order
EveryRowCandidate(t) ==
    /\ rq[t].code_ids_to_search = rq[t].all_code_ids
    /\ Len(rq[t].cosine_similarities) = Len(rq[t].all_code_ids)

\* C29: for an application_id that is absent, null, "" or 0, and for an
\* artifact whose application map is empty or missing, the call applies no
\* filter: it does not fail on the application_id, every row of the artifact
\* is a candidate and the three best are selected whatever application they
\* are scoped to; a row is left out only when the application_id is truthy
\* and the map is not empty.
C29_FilterOnlyWhenTruthy ==
    \A t \in QueryThreads :
        /\ (Ranked(t) /\ (NoApplication(rq[t].application_id)
                            \/ DOMAIN rq[t].code_to_app_map = {})) =>
              /\ response[t].status = 200
              /\ EveryRowCandidate(t)
              /\ Len(rq[t].top_indices_local) = Min(TOP_K, Len(rq[t].all_code_ids))
        /\ (Ranked(t) /\ ~EveryRowCandidate(t)) =>
              /\ ~NoApplication(rq[t].application_id)
              /\ DOMAIN rq[t].code_to_app_map # {}

\* C29, its case: the artifact has no application map, application 9 is asked
\* for, and the first code returned is one the catalog scopes to application 7
C29_Witness ==
    \E t \in QueryThreads :
        /\ Ranked(t) /\ response[t].status = 200
        /\ "code_to_app_map" \notin DOMAIN SIMILARITY_MODEL_DATA
        /\ rq[t].application_id = Num(9)
        /\ EveryRowCandidate(t)
        /\ response[t].sugerencias # <<>>
        /\ \E k \in 1..Len(catalog) :
              /\ catalog[k].id = response[t].sugerencias[1].id
              /\ catalog[k].aplicacion = Num(7)

\* A JSON body that parsed but is not an object with a text description and
\* an application_id that int() accepts: an array, a description that is null
\* or a number, or an application_id given as text that is not a numeral
NotConvertible(application_id) ==
    application_id.t = "str" /\ Truthy(application_id) /\ int(application_id) = None

WrongShape(body) ==
    \/ body.kind = "array"
    \/ /\ body.kind = "object"
       /\ \/ body.description.t \in {"null", "num"}
          \/ NotConvertible(body.application_id)

\* C30: a recommend call on a loaded service whose JSON body has the wrong
\* shape (not an object, a description that is not text, an application_id
\* that is not convertible to an integer) ends with the generic
\* unexpected-error response, status 500, never with a success, and no step
\* of it changes the in-memory artifact.
C30_WrongShapeRejected ==
    /\ [](\A t \in QueryThreads :
            (Done(t) /\ rq[t].passed /\ WrongShape(rq[t].request.body)) =>
                response[t] = ErrorResponse(500, "unexpected"))
    /\ [][\A t \in QueryThreads :
            (rq[t].passed /\ WrongShape(rq[t].request.body) /\ RecommendStep(t)) =>
                UNCHANGED SIMILARITY_MODEL_DATA]_vars

\* Lines 94-98 and 180-183: a body that is not an object, and a description
\* that is not text, do end with the generic 500
WrongBodyRejected ==
    \A t \in QueryThreads :
        (Done(t) /\ rq[t].passed /\ WrongShape(rq[t].request.body)
                 /\ ~(rq[t].request.body.kind = "object"
                        /\ NotConvertible(rq[t].request.body.application_id))) =>
            response[t] = ErrorResponse(500, "unexpected")

\* Line 119: int(application_id) is evaluated only for a row with a non-empty
\* application list, so a call with an application_id that is not convertible
\* succeeds exactly when the artifact it read scopes no row
NotConvertibleAccepted ==
    \A t \in QueryThreads :
        (Done(t) /\ rq[t].passed /\ rq[t].request.body.kind = "object"
                 /\ NotConvertible(rq[t].request.body.application_id)
                 /\ response[t].status = 200) =>
            \A i \in 1..Len(rq[t].all_code_ids) :
                MapGet(rq[t].code_to_app_map, rq[t].all_code_ids[i]) = <<>>
====
